---- MODULE Spec2Model ----
(***************************************************************************)
(* Model of the CloudPRNT print dispatch server (src/index.js): the device *)
(* registry, the per-tenant job queues and token index, the round-robin    *)
(* selector, the printer protocol (poll / fetch / confirm-reject), the     *)
(* intake endpoint with its background render, the stale-job sweeper, the  *)
(* presence tracker and the per-serial history.                            *)
(*                                                                         *)
(* Node runs every handler to its next await without interruption, so each *)
(* synchronous stretch of a handler is one action.  Time is Date.now() in  *)
(* seconds.  null timestamps and null content are 0 (Date.now() is never   *)
(* 0, and the code tests them by truthiness).                              *)
(***************************************************************************)
EXTENDS Integers, Sequences, FiniteSets, TLC

VARIABLES
    now,                    \* Date.now(), in seconds
    PRINTER_CONFIGS,        \* environment -> sequence of {restaurantId, serial}
    CONFIG_LAST_RELOAD,     \* environment -> time of the last successful load
    serialToRestaurantList, \* Map serial -> array of restaurantIds
    serialRR,               \* Map serial -> round-robin pointer
    printHistory,           \* Map serial -> entries, newest first
    jobsByRestaurant,       \* Map restaurantId -> array of job tokens
    jobIndex,               \* Map token -> job object (with its restaurantId)
    seenBySerial,           \* Map serial -> lastSeen
    nextId,                 \* the next token makeId() hands out
    renders,                \* background renders in flight (their token lists)
    pendingDelete,          \* DELETE handlers waiting for the audit log
    resp,                   \* the last HTTP response sent
    offersBy,               \* observer: <<serial, token>> -> offers so far, last content
    window,                 \* observer: tenant -> offers in the current poll window
    sentSince,              \* observer: token -> when its status last became sent
    renderLimit,            \* the Limit object: its running count and its queue q
    runPc,                  \* call of renderHtmlToPngFast -> where it stands
    browserLaunched,        \* browserPromise has resolved
    awaitingBrowser,        \* calls waiting on browserPromise, in order
    microtasks              \* the promise jobs queued in the current turn of the loop

\* the state of the program
pvars == <<now, PRINTER_CONFIGS, CONFIG_LAST_RELOAD, serialToRestaurantList,
           serialRR, printHistory, jobsByRestaurant, jobIndex, seenBySerial,
           nextId, renders, pendingDelete, resp>>

\* the observer variables record what the printers were offered; no action of
\* the program reads them
\* the render limiter with the calls through it and the promise job queue.
\* The renders of the dispatch model (renders) stand for calls that the
\* limiter admits at once: no behaviour has more than MaxJobs of them.
lvars == <<renderLimit, runPc, browserLaunched, awaitingBrowser, microtasks>>

vars == <<pvars, offersBy, window, sentSince, lvars>>

----------------------------------------------------------------------------
(* Bounds of the model *)

\* calls of renderHtmlToPngFast in one behaviour
MaxCalls == 4

\* new Limit(2)
RENDER_LIMIT_MAX == 2

\* MAX_HISTORY_ITEMS where the order of the entries kept is looked at
HistoryCap == 3

\* entries recorded in one behaviour of SpecHistory
MaxEntries == 5

\* tokens handed out in one behaviour
MaxJobs == 2
\* clock steps in one behaviour of the coarse clock
MaxTicks == 2
\* MAX_HISTORY_ITEMS of src/index.js:140 is 500; scaled down to keep the log finite
MAX_HISTORY_ITEMS == 1
\* seconds the one-second clock of SpecTimed runs
MaxClock == 16
\* seconds the one-second clock of SpecSent runs: past a first fetch and the
\* 23 s that follow it
SentClock == 26
\* the observer counts the offers of a window, and of a token, up to these
WindowCap == 2
OfferCap == 2

(* Program constants, in seconds *)
CONFIG_CACHE_TTL == 30
OFFER_TIMEOUT == 10
SENT_TIMEOUT == 20
SWEEP_INTERVAL == 3
POLL_ONLINE_WINDOW == 15

\* Date.now() when the process starts: past one cache TTL, as any real clock is
BootTime == CONFIG_CACHE_TTL
\* one step of the coarse clock: just past the offer timeout, so that after one
\* step an offer is stale and after two a fetch is
TickStep == OFFER_TIMEOUT + 1

----------------------------------------------------------------------------
(* Universe of inputs *)

Envs == <<"local", "develop", "production">>
EnvSet == {Envs[i] : i \in 1..Len(Envs)}

Entry(rid, s) == [restaurantId |-> rid, serial |-> s]

\* dynamodb-config.js: one serial shared by two tenants (as 2581019070600037 is)
FALLBACK_PRINTER_CONFIG == <<Entry("tA", "S1"), Entry("tB", "S1")>>

\* what fetchPrinterConfigFromDynamoDB can return: <<>> stands for null, an
\* empty list or a thrown error (all leave the state alone), then a list equal
\* to the fallback, and a list that binds one more tenant to the printer
CfgAdd == <<Entry("tA", "S1"), Entry("tB", "S1"), Entry("tC", "S1")>>
FetchResults == {<<>>, FALLBACK_PRINTER_CONFIG, CfgAdd}

\* X-Star-Serial-Number of a poll: registered, never registered, absent
PollSerials == {"S1", "SX", ""}

\* restaurantId of an intake body; NoRid is a body without the field
NoRid == <<"?">>
IntakeInputs == {NoRid, <<"tA">>, <<"tB">>, <<"tA", "tB">>, <<"tC">>, <<"tA", "tC">>}

Tokens == 1..MaxJobs

\* DELETE result codes, as character sequences
Codes == {<<"O", "K">>, <<"o", "k">>, <<"2", "0", "0">>, <<"5", "0", "0">>, <<>>}
MediaTypes == {"image/png", "text/plain"}

----------------------------------------------------------------------------
(* Helpers *)

Min(a, b) == IF a < b THEN a ELSE b

Put(f, k, v) == [x \in (DOMAIN f) \cup {k} |-> IF x = k THEN v ELSE f[x]]

SeqToSet(q) == {q[i] : i \in 1..Len(q)}

\* an HTTP response: status code, the jobReady and jobToken of a poll body, the
\* content served by a fetch (0 when none), the tokens of a 202, the ids of a
\* 404, and the Content-Length header of a fetch that serves content (0 in
\* every other response, where the model does not follow it)
Reply(st, ready, tok, b, toks, badIds) ==
    [status |-> st, jobReady |-> ready, jobToken |-> tok, body |-> b,
     tokens |-> toks, bad |-> badIds, length |-> 0]
NoResp == Reply(0, FALSE, 0, 0, <<>>, <<>>)
Status(st) == Reply(st, FALSE, 0, 0, <<>>, <<>>)

\* appendFeedAndCut: the bytes 0x1b 0x64 0x02 end every rendered buffer
FEED_AND_CUT == <<27, 100, 2>>

\* buf.length of a rendered buffer.  The model names the buffer of a render by
\* the first token n of its intake and gives it n bytes of image before the
\* feed-and-cut bytes, so that different buffers differ in length.
ByteLength(buf) == buf + Len(FEED_AND_CUT)

\* PRINTER_CONFIG (index.js:49,76-78) always equals the production entry of
\* PRINTER_CONFIGS: both start as the fallback and are assigned together
PRINTER_CONFIG == PRINTER_CONFIGS["production"]

----------------------------------------------------------------------------
(* Device registry *)

\* the three loops of rebuildSerialToRestaurantMapping over one entry list:
\* push the restaurantId onto the array of its serial unless it is included
RECURSIVE RebuildFold(_, _, _)
RebuildFold(entries, i, map) ==
    IF i > Len(entries) THEN map
    ELSE LET s == entries[i].serial
             rid == entries[i].restaurantId
             arr == IF s \in DOMAIN map THEN map[s] ELSE <<>>
             arr2 == IF rid \in SeqToSet(arr) THEN arr ELSE Append(arr, rid)
         IN RebuildFold(entries, i + 1, Put(map, s, arr2))

\* rebuildSerialToRestaurantMapping: the new serialToRestaurantList (the caller
\* clears serialRR together with it)
rebuildSerialToRestaurantMapping(configs) ==
    RebuildFold(configs["local"] \o configs["develop"] \o configs["production"], 1, <<>>)

\* reloadPrinterConfig(environment, forceReload) does something: the cache is
\* stale or the reload is forced, and the fetch (dynamoConfig) has entries
\* mutant: an empty answer of the config source is loaded like any other
ReloadsEvenEmpty(environment, forceReload, dynamoConfig) ==
    forceReload \/ now - CONFIG_LAST_RELOAD[environment] >= CONFIG_CACHE_TTL

Reloads(environment, forceReload, dynamoConfig) ==
    /\ forceReload \/ now - CONFIG_LAST_RELOAD[environment] >= CONFIG_CACHE_TTL
    /\ Len(dynamoConfig) > 0

\* reloadPrinterConfig(environment, forceReload), dynamoConfig the result of
\* its fetch: what it does to the configs, the registry and the cursors.  The
\* cache test and the assignments are one step: the fetch between them is
\* taken to answer at once.
reloadPrinterConfig(environment, forceReload, dynamoConfig) ==
    IF Reloads(environment, forceReload, dynamoConfig)
    THEN /\ PRINTER_CONFIGS' = [PRINTER_CONFIGS EXCEPT ![environment] = dynamoConfig]
         /\ CONFIG_LAST_RELOAD' = [CONFIG_LAST_RELOAD EXCEPT ![environment] = now]
         /\ serialToRestaurantList' = rebuildSerialToRestaurantMapping(PRINTER_CONFIGS')
         /\ serialRR' = <<>>
    ELSE UNCHANGED <<PRINTER_CONFIGS, CONFIG_LAST_RELOAD, serialToRestaurantList, serialRR>>

----------------------------------------------------------------------------
(* History *)

\* mutant: at the cap the newest entry is the one that goes
addToPrintHistoryKeepsOldest(hist, serial, restaurantId, status, orderId, cap) ==
    LET h == IF serial \in DOMAIN hist THEN hist[serial] ELSE <<>>
        entry == [restaurantId |-> restaurantId, status |-> status, orderId |-> orderId]
        h2 == <<entry>> \o h
    IN Put(hist, serial, SubSeq(h2, Len(h2) - Min(Len(h2), cap) + 1, Len(h2)))

\* addToPrintHistory with the cap as a parameter: unshift, then cut to cap
addToPrintHistoryUpTo(hist, serial, restaurantId, status, orderId, cap) ==
    LET h == IF serial \in DOMAIN hist THEN hist[serial] ELSE <<>>
        entry == [restaurantId |-> restaurantId, status |-> status, orderId |-> orderId]
        h2 == <<entry>> \o h
    IN Put(hist, serial, SubSeq(h2, 1, Min(Len(h2), cap)))

addToPrintHistory(hist, serial, restaurantId, status, orderId) ==
    addToPrintHistoryUpTo(hist, serial, restaurantId, status, orderId, MAX_HISTORY_ITEMS)

\* PRINTER_CONFIG.find(p => p.restaurantId === rid): its index, 0 when none
RECURSIVE FindConfig(_, _, _)
FindConfig(config, rid, i) ==
    IF i > Len(config) THEN 0
    ELSE IF config[i].restaurantId = rid THEN i
    ELSE FindConfig(config, rid, i + 1)

\* the history after the entry for the first configured serial of rid, if any
HistoryViaConfig(hist, rid, status, orderId) ==
    LET i == FindConfig(PRINTER_CONFIG, rid, 1)
    IN IF i = 0 THEN hist
       ELSE addToPrintHistory(hist, PRINTER_CONFIG[i].serial, rid, status, orderId)

----------------------------------------------------------------------------
(* Job store *)

queueFor(queues, restaurantId) ==
    IF restaurantId \in DOMAIN queues THEN queues
    ELSE Put(queues, restaurantId, <<>>)

\* mutant: the selector forgets the content test
RECURSIVE FindReadyNoContentTest(_, _, _)
FindReadyNoContentTest(index, q, i) ==
    IF i > Len(q) THEN 0
    ELSE IF index[q[i]].status = "queued" THEN q[i]
    ELSE FindReadyNoContentTest(index, q, i + 1)

\* mutant: the selector forgets the status test
RECURSIVE FindReadyNoStatusTest(_, _, _)
FindReadyNoStatusTest(index, q, i) ==
    IF i > Len(q) THEN 0
    ELSE IF index[q[i]].content # 0 THEN q[i]
    ELSE FindReadyNoStatusTest(index, q, i + 1)

\* mutant: the selector takes the last ready job of the queue
RECURSIVE FindReadyFromTail(_, _, _)
FindReadyFromTail(index, q, i) ==
    IF i > Len(q) THEN 0
    ELSE LET t == q[Len(q) + 1 - i]
         IN IF index[t].status = "queued" /\ index[t].content # 0 THEN t
            ELSE FindReadyFromTail(index, q, i + 1)

\* q.find(j => j.status === "queued" && j.content): the token, 0 when none
RECURSIVE FindReady(_, _, _)
FindReady(index, q, i) ==
    IF i > Len(q) THEN 0
    ELSE IF index[q[i]].status = "queued" /\ index[q[i]].content # 0 THEN q[i]
    ELSE FindReady(index, q, i + 1)

\* mutant: the selector walks the longest tenant list of the registry, whatever
\* serial polls
RECURSIVE ScanTenantsOfAnySerial(_, _, _, _, _, _)
ScanTenantsOfAnySerial(index, queues, rr, s, start, i) ==
    LET longest == CHOOSE x \in DOMAIN serialToRestaurantList :
                      \A y \in DOMAIN serialToRestaurantList :
                          Len(serialToRestaurantList[y]) <= Len(serialToRestaurantList[x])
        lists == serialToRestaurantList[longest]
    IN IF i >= Len(lists)
       THEN [job |-> 0, rr |-> rr, queues |-> queues]
       ELSE LET idx == (start + i) % Len(lists)
                rid == lists[idx + 1]
                qs == queueFor(queues, rid)
                job == FindReady(index, qs[rid], 1)
            IN IF job # 0
               THEN [job |-> job, rr |-> Put(rr, s, (idx + 1) % Len(lists)), queues |-> qs]
               ELSE ScanTenantsOfAnySerial(index, qs, rr, s, start, i + 1)

\* mutant: a hit moves the cursor one step on from where the scan began
RECURSIVE ScanTenantsStepsCursor(_, _, _, _, _, _)
ScanTenantsStepsCursor(index, queues, rr, s, start, i) ==
    LET lists == serialToRestaurantList[s]
    IN IF i >= Len(lists)
       THEN [job |-> 0, rr |-> rr, queues |-> queues]
       ELSE LET idx == (start + i) % Len(lists)
                rid == lists[idx + 1]
                qs == queueFor(queues, rid)
                job == FindReady(index, qs[rid], 1)
            IN IF job # 0
               THEN [job |-> job, rr |-> Put(rr, s, (start + 1) % Len(lists)), queues |-> qs]
               ELSE ScanTenantsStepsCursor(index, qs, rr, s, start, i + 1)

RECURSIVE ScanTenants(_, _, _, _, _, _)
ScanTenants(index, queues, rr, s, start, i) ==
    LET lists == serialToRestaurantList[s]
    IN IF i >= Len(lists)
       THEN [job |-> 0, rr |-> rr, queues |-> queues]
       ELSE LET idx == (start + i) % Len(lists)
                rid == lists[idx + 1]
                qs == queueFor(queues, rid)
                job == FindReady(index, qs[rid], 1)
            IN IF job # 0
               THEN [job |-> job, rr |-> Put(rr, s, (idx + 1) % Len(lists)), queues |-> qs]
               ELSE ScanTenants(index, qs, rr, s, start, i + 1)

\* mutant: a scan that finds nothing moves the cursor on all the same
nextJobForSerialMovesOnMiss(index, queues, rr, s) ==
    IF s \notin DOMAIN serialToRestaurantList \/ Len(serialToRestaurantList[s]) = 0
    THEN [job |-> 0, rr |-> rr, queues |-> queues]
    ELSE LET start == IF s \in DOMAIN rr THEN rr[s] ELSE 0
             r == ScanTenants(index, queues, rr, s, start, 0)
         IN IF r.job # 0 THEN r
            ELSE [r EXCEPT !.rr = Put(rr, s, (start + 1) % Len(serialToRestaurantList[s]))]

\* nextJobForSerial(serial) over the given index and queues: the selected
\* token (0 for null), the cursors and the queue map afterwards
nextJobForSerial(index, queues, rr, s) ==
    IF s \notin DOMAIN serialToRestaurantList \/ Len(serialToRestaurantList[s]) = 0
    THEN [job |-> 0, rr |-> rr, queues |-> queues]
    ELSE ScanTenants(index, queues, rr, s, IF s \in DOMAIN rr THEN rr[s] ELSE 0, 0)

\* q.splice(idx, 1) at the first position holding the token
RemoveFirst(q, token) ==
    LET hits == {i \in 1..Len(q) : q[i] = token}
    IN IF hits = {} THEN q
       ELSE LET idx == CHOOSE i \in hits : \A j \in hits : i <= j
            IN SubSeq(q, 1, idx - 1) \o SubSeq(q, idx + 1, Len(q))

\* mutant: the job leaves its queue but stays in the token index
removeJobKeepsIndex(index, queues, token) ==
    IF token \notin DOMAIN index THEN [queues |-> queues, index |-> index]
    ELSE LET rid == index[token].restaurantId
             qs == queueFor(queues, rid)
         IN [queues |-> [qs EXCEPT ![rid] = RemoveFirst(@, token)], index |-> index]

\* mutant: the token leaves the index but the job stays in its queue
removeJobKeepsQueue(index, queues, token) ==
    IF token \notin DOMAIN index THEN [queues |-> queues, index |-> index]
    ELSE [queues |-> queueFor(queues, index[token].restaurantId),
          index |-> [t \in (DOMAIN index) \ {token} |-> index[t]]]

\* removeJob(token): the new <<queues, index>>
removeJob(index, queues, token) ==
    IF token \notin DOMAIN index THEN [queues |-> queues, index |-> index]
    ELSE LET rid == index[token].restaurantId
             qs == queueFor(queues, rid)
         IN [queues |-> [qs EXCEPT ![rid] = RemoveFirst(@, token)],
             index |-> [t \in (DOMAIN index) \ {token} |-> index[t]]]

\* mutant: the requeue drops the rendered content
requeueTokenDropsContent(index, token) ==
    IF token \notin DOMAIN index THEN index
    ELSE [index EXCEPT ![token] = [@ EXCEPT !.status = "queued", !.offeredAt = 0,
                                            !.sentAt = 0, !.content = 0]]

\* mutant: the requeue forgets the fetch timestamp
requeueTokenKeepsSentAt(index, token) ==
    IF token \notin DOMAIN index THEN index
    ELSE [index EXCEPT ![token] = [@ EXCEPT !.status = "queued", !.offeredAt = 0]]

requeueToken(index, token) ==
    IF token \notin DOMAIN index THEN index
    ELSE [index EXCEPT ![token] = [@ EXCEPT !.status = "queued", !.offeredAt = 0, !.sentAt = 0]]

\* mutant: the stale check forgets the jobs that were fetched
SweepJobOfferedOnly(j, t) ==
    IF j.status = "offered" /\ j.offeredAt # 0 /\ t - j.offeredAt > OFFER_TIMEOUT
    THEN [j EXCEPT !.status = "queued", !.offeredAt = 0]
    ELSE j

\* the two stale checks of the sweeper and of the poll, applied to one job
SweepJob(j, t) ==
    LET j1 == IF j.status = "offered" /\ j.offeredAt # 0 /\ t - j.offeredAt > OFFER_TIMEOUT
              THEN [j EXCEPT !.status = "queued", !.offeredAt = 0]
              ELSE j
    IN IF j1.status = "sent" /\ j1.sentAt # 0 /\ t - j1.sentAt > SENT_TIMEOUT
       THEN [j1 EXCEPT !.status = "queued", !.sentAt = 0]
       ELSE j1

\* mutant: the sweep goes through every queue, whatever tenants it is given
SweepQueuesOfAll(index, queues, rids, t) ==
    LET touched == UNION {SeqToSet(queues[r]) : r \in DOMAIN queues}
    IN [tok \in DOMAIN index |->
          IF tok \in touched THEN SweepJob(index[tok], t) ELSE index[tok]]

\* the jobs of the queues of the given tenants, swept at time t
SweepQueues(index, queues, rids, t) ==
    LET touched == UNION {SeqToSet(queues[r]) : r \in rids \cap DOMAIN queues}
    IN [tok \in DOMAIN index |->
          IF tok \in touched THEN SweepJob(index[tok], t) ELSE index[tok]]

----------------------------------------------------------------------------
(* Initial state: the module has been loaded, no config fetched yet *)

Init ==
    /\ now = BootTime
    /\ PRINTER_CONFIGS = [e \in EnvSet |-> FALLBACK_PRINTER_CONFIG]
    /\ CONFIG_LAST_RELOAD = [e \in EnvSet |-> 0]
    /\ serialToRestaurantList =
          rebuildSerialToRestaurantMapping([e \in EnvSet |-> FALLBACK_PRINTER_CONFIG])
    /\ serialRR = <<>>
    /\ printHistory = <<>>
    /\ jobsByRestaurant = <<>>
    /\ jobIndex = <<>>
    /\ seenBySerial = <<>>
    /\ nextId = 1
    /\ renders = {}
    /\ pendingDelete = {}
    /\ resp = NoResp
    /\ offersBy = <<>>
    /\ window = <<>>
    /\ sentSince = <<>>
    /\ renderLimit = [running |-> 0, q |-> <<>>]
    /\ runPc = [c \in 1..MaxCalls |-> "idle"]
    /\ browserLaunched = FALSE
    /\ awaitingBrowser = <<>>
    /\ microtasks = <<>>

----------------------------------------------------------------------------
(* POST /api/print *)

\* the 'received' entries of one new job: one per PRINTER_CONFIG entry of rid
RECURSIVE ReceivedHistory(_, _, _, _, _)
ReceivedHistory(hist, config, rid, id, i) ==
    IF i > Len(config) THEN hist
    ELSE ReceivedHistory(
            IF config[i].restaurantId = rid
            THEN addToPrintHistory(hist, config[i].serial, rid, "received", id)
            ELSE hist,
            config, rid, id, i + 1)

\* mutant: the creation loop puts the new job at the head of the queue
RECURSIVE CreateJobsAtHead(_, _, _, _)
CreateJobsAtHead(restaurantIds, config, i, st) ==
    IF i > Len(restaurantIds) THEN st
    ELSE LET rid == restaurantIds[i]
             id == st.id
             job == [id |-> id, restaurantId |-> rid, content |-> 0,
                     status |-> "queued", offeredAt |-> 0, sentAt |-> 0]
             qs == queueFor(st.queues, rid)
         IN CreateJobsAtHead(restaurantIds, config, i + 1,
               [queues |-> [qs EXCEPT ![rid] = <<id>> \o @],
                index |-> Put(st.index, id, job),
                hist |-> ReceivedHistory(st.hist, config, rid, id, 1),
                tokens |-> Append(st.tokens, id),
                id |-> id + 1])

\* the job-creation loop; st carries queues, index, history, tokens and the
\* next id of makeId
RECURSIVE CreateJobs(_, _, _, _)
CreateJobs(restaurantIds, config, i, st) ==
    IF i > Len(restaurantIds) THEN st
    ELSE LET rid == restaurantIds[i]
             id == st.id
             job == [id |-> id, restaurantId |-> rid, content |-> 0,
                     status |-> "queued", offeredAt |-> 0, sentAt |-> 0]
             qs == queueFor(st.queues, rid)
         IN CreateJobs(restaurantIds, config, i + 1,
               [queues |-> [qs EXCEPT ![rid] = Append(@, id)],
                index |-> Put(st.index, id, job),
                hist |-> ReceivedHistory(st.hist, config, rid, id, 1),
                tokens |-> Append(st.tokens, id),
                id |-> id + 1])

\* mutant: the creation loop runs before the validation, over the ids that
\* are registered, and the 404 follows it
IntakeCreatesThenValidates(restaurantId, environment, dynamoConfig) ==
    /\ reloadPrinterConfig(environment, FALSE, dynamoConfig)
    /\ LET printerConfig == PRINTER_CONFIGS'[environment]
           validIds == {printerConfig[i].restaurantId : i \in 1..Len(printerConfig)}
           bad == SelectSeq(restaurantId, LAMBDA x : x \notin validIds)
           good == SelectSeq(restaurantId, LAMBDA x : x \in validIds)
           made == CreateJobs(good, PRINTER_CONFIGS'["production"], 1,
                      [queues |-> jobsByRestaurant, index |-> jobIndex,
                       hist |-> printHistory, tokens |-> <<>>, id |-> nextId])
       IN IF restaurantId = NoRid
          THEN /\ resp' = Status(400)
               /\ UNCHANGED <<jobsByRestaurant, jobIndex, printHistory, nextId, renders>>
          ELSE /\ made.id - 1 <= MaxJobs
               /\ jobsByRestaurant' = made.queues
               /\ jobIndex' = made.index
               /\ printHistory' = made.hist
               /\ nextId' = made.id
               /\ renders' = IF Len(good) > 0 THEN renders \cup {made.tokens} ELSE renders
               /\ resp' = IF Len(bad) > 0
                          THEN Reply(404, FALSE, 0, 0, <<>>, bad)
                          ELSE Reply(202, FALSE, 0, 0, made.tokens, <<>>)
    /\ UNCHANGED <<now, seenBySerial, pendingDelete>>

\* the whole handler up to the 202 (or the 4xx): the cached config reload, the
\* validation against the environment's config, the creation loop, and the
\* start of the background render.  The handler awaits its log writes between
\* these parts; it is one step here.  What other handlers do after its
\* creation loop finds the jobs without content, as it does here until the
\* render ends; what they do between its reload and its creation loop is the
\* behaviour of a ReloadConfig step, their steps, and an Intake whose own
\* fetch returns nothing.
Intake(restaurantId, environment, dynamoConfig) ==
    /\ reloadPrinterConfig(environment, FALSE, dynamoConfig)
    /\ LET printerConfig == PRINTER_CONFIGS'[environment]
           validIds == {printerConfig[i].restaurantId : i \in 1..Len(printerConfig)}
           bad == SelectSeq(restaurantId, LAMBDA x : x \notin validIds)
           made == CreateJobs(restaurantId, PRINTER_CONFIGS'["production"], 1,
                      [queues |-> jobsByRestaurant, index |-> jobIndex,
                       hist |-> printHistory, tokens |-> <<>>, id |-> nextId])
       IN IF restaurantId = NoRid
          THEN /\ resp' = Status(400)
               /\ UNCHANGED <<jobsByRestaurant, jobIndex, printHistory, nextId, renders>>
          ELSE IF Len(bad) > 0
          THEN /\ resp' = Reply(404, FALSE, 0, 0, <<>>, bad)
               /\ UNCHANGED <<jobsByRestaurant, jobIndex, printHistory, nextId, renders>>
          ELSE /\ nextId + Len(restaurantId) - 1 <= MaxJobs
               /\ jobsByRestaurant' = made.queues
               /\ jobIndex' = made.index
               /\ printHistory' = made.hist
               /\ nextId' = made.id
               /\ renders' = renders \cup {made.tokens}
               /\ resp' = Reply(202, FALSE, 0, 0, made.tokens, <<>>)
    /\ UNCHANGED <<now, seenBySerial, pendingDelete>>

\* the background render of one intake finishes: its buffer (named by the
\* first token of the intake) goes to every job of the intake still indexed
RenderReady(tokens) ==
    /\ tokens \in renders
    /\ renders' = renders \ {tokens}
    /\ jobIndex' = [t \in DOMAIN jobIndex |->
                      IF t \in SeqToSet(tokens)
                      THEN [jobIndex[t] EXCEPT !.content = tokens[1], !.status = "queued"]
                      ELSE jobIndex[t]]
    /\ UNCHANGED <<now, PRINTER_CONFIGS, CONFIG_LAST_RELOAD, serialToRestaurantList,
                   serialRR, printHistory, jobsByRestaurant, seenBySerial, nextId,
                   pendingDelete, resp>>

\* mutant: a failed render takes its jobs out of the queues and the index
RenderFailedDropsJobs(tokens) ==
    /\ tokens \in renders
    /\ renders' = renders \ {tokens}
    /\ jobIndex' = [t \in (DOMAIN jobIndex) \ SeqToSet(tokens) |-> jobIndex[t]]
    /\ jobsByRestaurant' =
          [r \in DOMAIN jobsByRestaurant |->
              SelectSeq(jobsByRestaurant[r], LAMBDA t : t \notin SeqToSet(tokens))]
    /\ UNCHANGED <<now, PRINTER_CONFIGS, CONFIG_LAST_RELOAD, serialToRestaurantList,
                   serialRR, printHistory, seenBySerial, nextId, pendingDelete, resp>>

\* the background render throws
RenderFailed(tokens) ==
    /\ tokens \in renders
    /\ renders' = renders \ {tokens}
    /\ jobIndex' = [t \in DOMAIN jobIndex |->
                      IF t \in SeqToSet(tokens)
                      THEN [jobIndex[t] EXCEPT !.status = "failed"]
                      ELSE jobIndex[t]]
    /\ UNCHANGED <<now, PRINTER_CONFIGS, CONFIG_LAST_RELOAD, serialToRestaurantList,
                   serialRR, printHistory, jobsByRestaurant, seenBySerial, nextId,
                   pendingDelete, resp>>

----------------------------------------------------------------------------
(* POST /cloudprnt *)

markSeen(seen, serial) == IF serial = "" THEN seen ELSE Put(seen, serial, now)

\* mutant: the online window is open at its far end
isOnlineStrict(lastSeen) == now - lastSeen < POLL_ONLINE_WINDOW

\* isOnline(rec), on the lastSeen of the record
isOnline(lastSeen) == now - lastSeen <= POLL_ONLINE_WINDOW

\* the serials GET /api/printers/online lists
OnlinePrinters == {s \in DOMAIN seenBySerial : isOnline(seenBySerial[s])}

\* the status GET /api/printers reports for a serial
PrinterStatus(serial) ==
    IF serial \notin DOMAIN seenBySerial THEN "offline"
    ELSE IF isOnline(seenBySerial[serial]) THEN "online" ELSE "offline"

RECURSIVE QueuesFor(_, _, _)
QueuesFor(queues, rids, i) ==
    IF i > Len(rids) THEN queues ELSE QueuesFor(queueFor(queues, rids[i]), rids, i + 1)

Poll(serial) ==
    /\ seenBySerial' = markSeen(seenBySerial, serial)
    /\ IF serial \notin DOMAIN serialToRestaurantList
       THEN /\ resp' = Reply(200, FALSE, 0, 0, <<>>, <<>>)
            /\ UNCHANGED <<jobsByRestaurant, jobIndex, serialRR, printHistory>>
       ELSE LET rids == serialToRestaurantList[serial]
                qs == QueuesFor(jobsByRestaurant, rids, 1)
                swept == SweepQueues(jobIndex, qs, SeqToSet(rids), now)
                sel == nextJobForSerial(swept, qs, serialRR, serial)
            IN /\ jobsByRestaurant' = sel.queues
               /\ serialRR' = sel.rr
               /\ IF sel.job = 0
                  THEN /\ jobIndex' = swept
                       /\ resp' = Reply(200, FALSE, 0, 0, <<>>, <<>>)
                       /\ UNCHANGED printHistory
                  ELSE /\ jobIndex' = [swept EXCEPT ![sel.job] =
                                         [@ EXCEPT !.status = "offered", !.offeredAt = now]]
                       /\ printHistory' = addToPrintHistory(printHistory, serial,
                                             swept[sel.job].restaurantId, "offered", sel.job)
                       /\ resp' = Reply(200, TRUE, sel.job, 0, <<>>, <<>>)
    /\ UNCHANGED <<now, PRINTER_CONFIGS, CONFIG_LAST_RELOAD, serialToRestaurantList,
                   nextId, renders, pendingDelete>>

----------------------------------------------------------------------------
(* GET /cloudprnt; token 0 is a request without the parameter *)

\* mutant: the fetch serves only the jobs of tenants some serial is bound to
FetchBoundOnly(token, type) ==
    /\ IF \/ token \notin DOMAIN jobIndex
          \/ jobIndex[token].content = 0
          \/ \A s \in DOMAIN serialToRestaurantList :
                jobIndex[token].restaurantId \notin SeqToSet(serialToRestaurantList[s])
       THEN resp' = Status(404) /\ UNCHANGED <<jobIndex, printHistory>>
       ELSE /\ jobIndex' = [jobIndex EXCEPT ![token] =
                              [@ EXCEPT !.status = "sent", !.sentAt = now]]
            /\ printHistory' = HistoryViaConfig(printHistory,
                                  jobIndex[token].restaurantId, "sent", token)
            /\ resp' = [Reply(200, FALSE, 0, jobIndex[token].content, <<>>, <<>>)
                          EXCEPT !.length = ByteLength(jobIndex[token].content)]
    /\ UNCHANGED <<now, PRINTER_CONFIGS, CONFIG_LAST_RELOAD, serialToRestaurantList,
                   serialRR, jobsByRestaurant, seenBySerial, nextId, renders,
                   pendingDelete>>

\* mutant: the fetch serves whatever media type is asked for
FetchAnyType(token, type) ==
    /\ IF token = 0
       THEN resp' = Status(400) /\ UNCHANGED <<jobIndex, printHistory>>
       ELSE IF token \notin DOMAIN jobIndex
       THEN resp' = Status(404) /\ UNCHANGED <<jobIndex, printHistory>>
       ELSE IF jobIndex[token].content = 0
       THEN resp' = Reply(200, FALSE, 0, 0, <<>>, <<>>) /\ UNCHANGED <<jobIndex, printHistory>>
       ELSE /\ jobIndex' = [jobIndex EXCEPT ![token] =
                              [@ EXCEPT !.status = "sent", !.sentAt = now]]
            /\ printHistory' = HistoryViaConfig(printHistory,
                                  jobIndex[token].restaurantId, "sent", token)
            /\ resp' = [Reply(200, FALSE, 0, jobIndex[token].content, <<>>, <<>>)
                          EXCEPT !.length = ByteLength(jobIndex[token].content)]
    /\ UNCHANGED <<now, PRINTER_CONFIGS, CONFIG_LAST_RELOAD, serialToRestaurantList,
                   serialRR, jobsByRestaurant, seenBySerial, nextId, renders,
                   pendingDelete>>

\* mutant: the fetch marks the job sent but does not record when
FetchWithoutSentAt(token, type) ==
    /\ IF token = 0
       THEN resp' = Status(400) /\ UNCHANGED <<jobIndex, printHistory>>
       ELSE IF type # "image/png"
       THEN resp' = Status(415) /\ UNCHANGED <<jobIndex, printHistory>>
       ELSE IF token \notin DOMAIN jobIndex
       THEN resp' = Status(404) /\ UNCHANGED <<jobIndex, printHistory>>
       ELSE IF jobIndex[token].content = 0
       THEN resp' = Reply(200, FALSE, 0, 0, <<>>, <<>>) /\ UNCHANGED <<jobIndex, printHistory>>
       ELSE /\ jobIndex' = [jobIndex EXCEPT ![token] = [@ EXCEPT !.status = "sent"]]
            /\ printHistory' = HistoryViaConfig(printHistory,
                                  jobIndex[token].restaurantId, "sent", token)
            /\ resp' = [Reply(200, FALSE, 0, jobIndex[token].content, <<>>, <<>>)
                          EXCEPT !.length = ByteLength(jobIndex[token].content)]
    /\ UNCHANGED <<now, PRINTER_CONFIGS, CONFIG_LAST_RELOAD, serialToRestaurantList,
                   serialRR, jobsByRestaurant, seenBySerial, nextId, renders,
                   pendingDelete>>

Fetch(token, type) ==
    /\ IF token = 0
       THEN resp' = Status(400) /\ UNCHANGED <<jobIndex, printHistory>>
       ELSE IF type # "image/png"
       THEN resp' = Status(415) /\ UNCHANGED <<jobIndex, printHistory>>
       ELSE IF token \notin DOMAIN jobIndex
       THEN resp' = Status(404) /\ UNCHANGED <<jobIndex, printHistory>>
       ELSE IF jobIndex[token].content = 0
       THEN resp' = Reply(200, FALSE, 0, 0, <<>>, <<>>) /\ UNCHANGED <<jobIndex, printHistory>>
       ELSE /\ jobIndex' = [jobIndex EXCEPT ![token] =
                              [@ EXCEPT !.status = "sent", !.sentAt = now]]
            /\ printHistory' = HistoryViaConfig(printHistory,
                                  jobIndex[token].restaurantId, "sent", token)
            /\ resp' = [Reply(200, FALSE, 0, jobIndex[token].content, <<>>, <<>>)
                          EXCEPT !.length = ByteLength(jobIndex[token].content)]
    /\ UNCHANGED <<now, PRINTER_CONFIGS, CONFIG_LAST_RELOAD, serialToRestaurantList,
                   serialRR, jobsByRestaurant, seenBySerial, nextId, renders,
                   pendingDelete>>

----------------------------------------------------------------------------
(* DELETE /cloudprnt *)

toUpperCase(code) ==
    [i \in 1..Len(code) |->
        CASE code[i] = "o" -> "O"
          [] code[i] = "k" -> "K"
          [] OTHER -> code[i]]

\* mutant: the code is compared as it was sent
IsSuccessCodeAsSent(code) ==
    code = <<"O", "K">> \/ (Len(code) > 0 /\ code[1] = "2")

\* codeStr === "OK" || codeStr.startsWith("2")
IsSuccessCode(code) ==
    LET codeStr == toUpperCase(code)
    IN codeStr = <<"O", "K">> \/ (Len(codeStr) > 0 /\ codeStr[1] = "2")

\* mutant: a DELETE for a token that is not indexed is answered 404
DeleteUnknownIs404(token, code) ==
    /\ IF token = 0
       THEN resp' = Status(400) /\ UNCHANGED <<jobIndex, printHistory, pendingDelete>>
       ELSE IF token \notin DOMAIN jobIndex
       THEN resp' = Status(404) /\ UNCHANGED <<jobIndex, printHistory, pendingDelete>>
       ELSE IF IsSuccessCode(code)
       THEN /\ jobIndex' = [jobIndex EXCEPT ![token] = [@ EXCEPT !.status = "done"]]
            /\ printHistory' = HistoryViaConfig(printHistory,
                                  jobIndex[token].restaurantId, "completed", token)
            /\ pendingDelete' = pendingDelete \cup {token}
            /\ UNCHANGED resp
       ELSE /\ printHistory' = HistoryViaConfig(printHistory,
                                  jobIndex[token].restaurantId, "failed", token)
            /\ jobIndex' = requeueToken(jobIndex, token)
            /\ resp' = Status(200)
            /\ UNCHANGED pendingDelete
    /\ UNCHANGED <<now, PRINTER_CONFIGS, CONFIG_LAST_RELOAD, serialToRestaurantList,
                   serialRR, jobsByRestaurant, seenBySerial, nextId, renders>>

\* the handler up to its response, or up to the wait for the audit log that
\* precedes removeJob on the success path
Delete(token, code) ==
    /\ IF token = 0
       THEN resp' = Status(400) /\ UNCHANGED <<jobIndex, printHistory, pendingDelete>>
       ELSE IF token \notin DOMAIN jobIndex
       THEN resp' = Status(200) /\ UNCHANGED <<jobIndex, printHistory, pendingDelete>>
       ELSE IF IsSuccessCode(code)
       THEN /\ jobIndex' = [jobIndex EXCEPT ![token] = [@ EXCEPT !.status = "done"]]
            /\ printHistory' = HistoryViaConfig(printHistory,
                                  jobIndex[token].restaurantId, "completed", token)
            /\ pendingDelete' = pendingDelete \cup {token}
            /\ UNCHANGED resp
       ELSE /\ printHistory' = HistoryViaConfig(printHistory,
                                  jobIndex[token].restaurantId, "failed", token)
            /\ jobIndex' = requeueToken(jobIndex, token)
            /\ resp' = Status(200)
            /\ UNCHANGED pendingDelete
    /\ UNCHANGED <<now, PRINTER_CONFIGS, CONFIG_LAST_RELOAD, serialToRestaurantList,
                   serialRR, jobsByRestaurant, seenBySerial, nextId, renders>>

\* the audit log wait of a positive confirmation is over: removeJob, then 200
DeleteFinish(token) ==
    /\ token \in pendingDelete
    /\ pendingDelete' = pendingDelete \ {token}
    /\ LET r == removeJob(jobIndex, jobsByRestaurant, token)
       IN jobIndex' = r.index /\ jobsByRestaurant' = r.queues
    /\ resp' = Status(200)
    /\ UNCHANGED <<now, PRINTER_CONFIGS, CONFIG_LAST_RELOAD, serialToRestaurantList,
                   serialRR, printHistory, seenBySerial, nextId, renders>>

----------------------------------------------------------------------------
(* The sweeper, the clock and the config loader *)

\* mutant: the timer rewinds nothing
SweepAtIdle(t) == jobIndex

\* the setInterval callback running at time t
SweepAt(t) == SweepQueues(jobIndex, jobsByRestaurant, DOMAIN jobsByRestaurant, t)

Sweep ==
    /\ jobIndex' = SweepAt(now)
    /\ UNCHANGED <<now, PRINTER_CONFIGS, CONFIG_LAST_RELOAD, serialToRestaurantList,
                   serialRR, printHistory, jobsByRestaurant, seenBySerial, nextId,
                   renders, pendingDelete, resp>>

Tick ==
    /\ now + TickStep <= BootTime + MaxTicks * TickStep
    /\ now' = now + TickStep
    /\ UNCHANGED <<PRINTER_CONFIGS, CONFIG_LAST_RELOAD, serialToRestaurantList,
                   serialRR, printHistory, jobsByRestaurant, jobIndex, seenBySerial,
                   nextId, renders, pendingDelete, resp>>

\* one reloadPrinterConfig outside the intake path: the boot and 5-minute
\* loads (not forced) and POST /api/printers/reload-config (forced)
ReloadConfig(environment, forceReload, dynamoConfig) ==
    /\ reloadPrinterConfig(environment, forceReload, dynamoConfig)
    /\ UNCHANGED <<now, printHistory, jobsByRestaurant, jobIndex, seenBySerial,
                   nextId, renders, pendingDelete, resp>>

----------------------------------------------------------------------------
(* The render limiter.  A call of renderHtmlToPngFast awaits the browser,
   then goes through renderLimit.run.  Node runs the continuation of an
   await as a promise job, and empties the queue of promise jobs before it
   takes the next event: an arriving request, the launch of the browser, or
   the message from the browser that lets a render function settle.  The
   events are the actions guarded by an empty queue; the promise jobs are
   taken from the head of the queue. *)

Calls == 1..MaxCalls

Job(kind, c) == [kind |-> kind, call |-> c]

\* renderHtmlToPngFast up to its await of getBrowser(), called from an intake
Submit(c) ==
    /\ microtasks = <<>>
    /\ runPc[c] = "idle"
    /\ IF browserLaunched
       THEN /\ microtasks' = <<Job("run", c)>>
            /\ UNCHANGED awaitingBrowser
       ELSE /\ awaitingBrowser' = Append(awaitingBrowser, c)
            /\ UNCHANGED microtasks
    /\ runPc' = [runPc EXCEPT ![c] = "browser"]
    /\ UNCHANGED <<renderLimit, browserLaunched>>

\* puppeteer.launch resolves: every call waiting on browserPromise goes on
BrowserLaunched ==
    /\ microtasks = <<>>
    /\ ~browserLaunched
    /\ browserLaunched' = TRUE
    /\ microtasks' = [i \in DOMAIN awaitingBrowser |-> Job("run", awaitingBrowser[i])]
    /\ awaitingBrowser' = <<>>
    /\ UNCHANGED <<renderLimit, runPc>>

\* one message of the browser lets the render function of a call settle, or
\* those of two calls, one after the other
FnSettles(a, b) ==
    /\ microtasks = <<>>
    /\ runPc[a] = "running" /\ runPc[b] = "running"
    /\ microtasks' = IF a = b THEN <<Job("finally", a)>>
                     ELSE <<Job("finally", a), Job("finally", b)>>
    /\ runPc' = [c \in Calls |-> IF c \in {a, b} THEN "settled" ELSE runPc[c]]
    /\ UNCHANGED <<renderLimit, browserLaunched, awaitingBrowser>>

\* Limit.run from its entry to its first await
RunEnter ==
    /\ microtasks # <<>> /\ Head(microtasks).kind = "run"
    /\ LET c == Head(microtasks).call
       IN IF renderLimit.running >= RENDER_LIMIT_MAX
          THEN /\ renderLimit' = [renderLimit EXCEPT !.q = Append(@, c)]
               /\ runPc' = [runPc EXCEPT ![c] = "waiting"]
          ELSE /\ renderLimit' = [renderLimit EXCEPT !.running = @ + 1]
               /\ runPc' = [runPc EXCEPT ![c] = "running"]
    /\ microtasks' = Tail(microtasks)
    /\ UNCHANGED <<browserLaunched, awaitingBrowser>>

\* mutant: a completion wakes every waiter
RunFinallyWakesAll ==
    /\ microtasks # <<>> /\ Head(microtasks).kind = "finally"
    /\ LET c == Head(microtasks).call
           q == renderLimit.q
       IN /\ renderLimit' = [running |-> renderLimit.running - 1, q |-> <<>>]
          /\ runPc' = [x \in Calls |-> IF x = c THEN "done"
                                       ELSE IF x \in SeqToSet(q) THEN "woken"
                                       ELSE runPc[x]]
          /\ microtasks' = Tail(microtasks) \o [i \in DOMAIN q |-> Job("resume", q[i])]
    /\ UNCHANGED <<browserLaunched, awaitingBrowser>>

\* mutant: a completion gives its slot back and wakes nobody
RunFinallyWakesNone ==
    /\ microtasks # <<>> /\ Head(microtasks).kind = "finally"
    /\ LET c == Head(microtasks).call
       IN /\ renderLimit' = [renderLimit EXCEPT !.running = @ - 1]
          /\ runPc' = [runPc EXCEPT ![c] = "done"]
          /\ microtasks' = Tail(microtasks)
    /\ UNCHANGED <<browserLaunched, awaitingBrowser>>

\* the finally block of Limit.run
RunFinally ==
    /\ microtasks # <<>> /\ Head(microtasks).kind = "finally"
    /\ LET c == Head(microtasks).call
           q == renderLimit.q
       IN IF q = <<>>
          THEN /\ renderLimit' = [renderLimit EXCEPT !.running = @ - 1]
               /\ runPc' = [runPc EXCEPT ![c] = "done"]
               /\ microtasks' = Tail(microtasks)
          ELSE /\ renderLimit' = [running |-> renderLimit.running - 1, q |-> Tail(q)]
               /\ runPc' = [runPc EXCEPT ![c] = "done", ![Head(q)] = "woken"]
               /\ microtasks' = Append(Tail(microtasks), Job("resume", Head(q)))
    /\ UNCHANGED <<browserLaunched, awaitingBrowser>>

\* Limit.run after its await: the woken waiter counts itself in
RunResume ==
    /\ microtasks # <<>> /\ Head(microtasks).kind = "resume"
    /\ LET c == Head(microtasks).call
       IN /\ renderLimit' = [renderLimit EXCEPT !.running = @ + 1]
          /\ runPc' = [runPc EXCEPT ![c] = "running"]
    /\ microtasks' = Tail(microtasks)
    /\ UNCHANGED <<browserLaunched, awaitingBrowser>>

----------------------------------------------------------------------------
(* The query endpoints.  A response carries what the model keeps of its
   body: the tokens listed, or the number of entries. *)

Answer(toks, n) == [Reply(200, FALSE, 0, 0, toks, <<>>) EXCEPT !.length = n]

\* GET /debug/queue/:rid
DebugQueue(rid) ==
    /\ jobsByRestaurant' = queueFor(jobsByRestaurant, rid)
    /\ resp' = Answer(jobsByRestaurant'[rid], Len(jobsByRestaurant'[rid]))
    /\ UNCHANGED <<now, PRINTER_CONFIGS, CONFIG_LAST_RELOAD, serialToRestaurantList,
                   serialRR, printHistory, jobIndex, seenBySerial, nextId, renders,
                   pendingDelete>>

\* the state untouched; only the response is new
ReadOnly == UNCHANGED <<now, PRINTER_CONFIGS, CONFIG_LAST_RELOAD, serialToRestaurantList,
                        serialRR, printHistory, jobsByRestaurant, jobIndex, seenBySerial,
                        nextId, renders, pendingDelete>>

\* GET /api/printers/online
GetPrintersOnline ==
    /\ resp' = Answer(<<>>, Cardinality(OnlinePrinters))
    /\ ReadOnly

\* GET /api/printers: the configured serials, then the seen ones not configured
GetPrinters ==
    /\ resp' = Answer(<<>>, Cardinality({PRINTER_CONFIG[i].serial : i \in DOMAIN PRINTER_CONFIG}
                                          \cup DOMAIN seenBySerial))
    /\ ReadOnly

\* GET /api/printers/:serial/history
GetHistory(serial) ==
    /\ LET h == IF serial \in DOMAIN printHistory THEN printHistory[serial] ELSE <<>>
       IN resp' = Answer([i \in DOMAIN h |-> h[i].orderId], Len(h))
    /\ ReadOnly

\* GET /debug/seen
DebugSeen ==
    /\ resp' = Answer(<<>>, Cardinality(DOMAIN seenBySerial))
    /\ ReadOnly

----------------------------------------------------------------------------
(* Spec: the dispatch core under the fallback registry.  The config source
   returns nothing, requests are well-formed, the printer S1 serves both
   tenants, and the sweeper may run at any moment of the coarse clock. *)

ValidIntakes == {<<"tA">>, <<"tB">>, <<"tA", "tB">>}
PrinterCodes == {<<"O", "K">>, <<"5", "0", "0">>}

\* the observer takes no notes
Quiet == UNCHANGED <<offersBy, window, sentSince, lvars>>

Next ==
    \/ \E rid \in ValidIntakes : Intake(rid, "production", <<>>) /\ Quiet
    \/ \E r \in renders : RenderReady(r) /\ Quiet
    \/ \E r \in renders : RenderFailed(r) /\ Quiet
    \/ Poll("S1") /\ Quiet
    \/ \E t \in Tokens : Fetch(t, "image/png") /\ Quiet
    \/ \E t \in Tokens, c \in PrinterCodes : Delete(t, c) /\ Quiet
    \/ \E t \in Tokens : DeleteFinish(t) /\ Quiet
    \/ Sweep /\ Quiet
    \/ Tick /\ Quiet

Spec == Init /\ [][Next]_vars

----------------------------------------------------------------------------
(* The observer: what each poll handed out *)

\* the tenants of a registered serial that hold a ready job once the poll has
\* swept their queues
ReadyTenants(serial) ==
    LET rids == serialToRestaurantList[serial]
        qs == QueuesFor(jobsByRestaurant, rids, 1)
        swept == SweepQueues(jobIndex, qs, SeqToSet(rids), now)
    IN {r \in SeqToSet(rids) : FindReady(swept, qs[r], 1) # 0}

\* window[serial] counts, per tenant, the offers of the current run of polls
\* of the serial at each of which every tenant of the serial had a ready job;
\* a poll at which one had none, or a change of the tenant list, ends the run
ObserveWindow(serial) ==
    /\ offersBy' = offersBy
    /\ UNCHANGED <<sentSince, lvars>>
    /\ window' =
          IF serial \notin DOMAIN serialToRestaurantList
          THEN window
          ELSE LET tenants == SeqToSet(serialToRestaurantList[serial])
                   fresh == [r \in tenants |-> 0]
                   old == IF serial \in DOMAIN window /\ DOMAIN window[serial] = tenants
                          THEN window[serial] ELSE fresh
                   rid == jobIndex'[resp'.jobToken].restaurantId
               IN IF ReadyTenants(serial) = tenants /\ resp'.jobReady
                  THEN Put(window, serial,
                           [old EXCEPT ![rid] = Min(@ + 1, WindowCap)])
                  ELSE Put(window, serial, fresh)

\* offersBy[serial, token] counts the offers of the token to the serial and
\* keeps the content the job had at the last of them
ObserveOffers(serial) ==
    /\ window' = window
    /\ UNCHANGED <<sentSince, lvars>>
    /\ offersBy' =
          IF ~resp'.jobReady THEN offersBy
          ELSE LET k == <<serial, resp'.jobToken>>
                   n == IF k \in DOMAIN offersBy THEN offersBy[k].n ELSE 0
               IN Put(offersBy, k, [n |-> Min(n + 1, OfferCap),
                                    content |-> jobIndex'[resp'.jobToken].content])

\* sentSince[token] is the time of the fetch that took the job out of another
\* status into sent; a fetch of a job that is sent already leaves it alone
ObserveFetch(token) ==
    /\ UNCHANGED <<offersBy, window, lvars>>
    /\ sentSince' =
          IF /\ token \in DOMAIN jobIndex
             /\ jobIndex[token].status # "sent"
             /\ jobIndex'[token].status = "sent"
          THEN Put(sentSince, token, now)
          ELSE sentSince

----------------------------------------------------------------------------
(* SpecRegistry: the registry under reloads.  The config source answers with
   nothing, with the fallback entries or with a list that adds a binding;
   intakes are well-formed or not; known, unknown and anonymous printers
   poll; a printer may reject what it was offered.  The clock stands still. *)

\* the environments that requests and reloads name
RegistryEnvs == {"production", "develop"}

RejectCode == <<"5", "0", "0">>

NextRegistry ==
    \/ \E rid \in IntakeInputs, e \in RegistryEnvs, d \in FetchResults :
          Intake(rid, e, d) /\ Quiet
    \/ \E e \in RegistryEnvs, f \in BOOLEAN, d \in FetchResults :
          ReloadConfig(e, f, d) /\ Quiet
    \/ \E r \in renders : RenderReady(r) /\ Quiet
    \/ \E s \in PollSerials : Poll(s) /\ ObserveWindow(s)
    \/ \E t \in Tokens : Delete(t, RejectCode) /\ Quiet

SpecRegistry == Init /\ [][NextRegistry]_vars

----------------------------------------------------------------------------
(* SpecShared: two printers serve one tenant.  The develop table binds tB to
   a second printer S2 while the other tables keep it on S1, so that after a
   reload both S1 and S2 draw on the queue of tB.  The printers poll, fetch
   and reject; offers and fetches time out. *)

SharedConfig == <<Entry("tA", "S1"), Entry("tB", "S2")>>
SharedSerials == {"S1", "S2"}

NextShared ==
    \/ ReloadConfig("develop", TRUE, SharedConfig) /\ Quiet
    \/ \E rid \in ValidIntakes : Intake(rid, "production", <<>>) /\ Quiet
    \/ \E r \in renders : RenderReady(r) /\ Quiet
    \/ \E s \in SharedSerials : Poll(s) /\ Quiet
    \/ \E t \in Tokens : Fetch(t, "image/png") /\ Quiet
    \/ \E t \in Tokens : Delete(t, RejectCode) /\ Quiet
    \/ Sweep /\ Quiet
    \/ Tick /\ Quiet

SpecShared == Init /\ [][NextShared]_vars

----------------------------------------------------------------------------
(* SpecTimed: the sweeper on its timer.  The clock advances second by second
   and the setInterval callback runs every SWEEP_INTERVAL seconds from the
   start of the process, as the clock reaches the instant; between two
   seconds orders come in and the printer polls, but it never fetches or
   confirms what it is offered. *)

SweepDue(t) == (t - BootTime) % SWEEP_INTERVAL = 0

SecondUpTo(last) ==
    /\ now < BootTime + last
    /\ now' = now + 1
    /\ jobIndex' = IF SweepDue(now') THEN SweepAt(now') ELSE jobIndex
    /\ UNCHANGED <<PRINTER_CONFIGS, CONFIG_LAST_RELOAD, serialToRestaurantList,
                   serialRR, printHistory, jobsByRestaurant, seenBySerial, nextId,
                   renders, pendingDelete, resp>>

Second == SecondUpTo(MaxClock)

SingleIntakes == {<<"tA">>, <<"tB">>}

NextTimed ==
    \/ \E rid \in SingleIntakes : Intake(rid, "production", <<>>) /\ Quiet
    \/ \E r \in renders : RenderReady(r) /\ Quiet
    \/ Poll("S1") /\ ObserveOffers("S1")
    \/ Second /\ Quiet

SpecTimed == Init /\ [][NextTimed]_vars

----------------------------------------------------------------------------
(* SpecFair: the dispatch core with time that never runs out.  Date.now()
   enters the program only through the ages now - offeredAt, now - sentAt and
   now - lastSeen, which it compares with its timeouts: a step of the clock
   is written as every timestamp receding by TickStep, and ages past the
   longest timeout are not told apart.  The sweeper runs at least once in
   every TickStep seconds; it runs as the step ends.  The sweeper keeps
   running, the printer keeps polling, and renders and audit-log waits end. *)

\* ages beyond this are past every timeout
AgeCap == SENT_TIMEOUT + 1

Recede(ts) ==
    IF ts = 0 THEN 0
    ELSE IF ts - TickStep < now - AgeCap THEN now - AgeCap ELSE ts - TickStep

Elapse ==
    /\ jobIndex' =
          SweepQueues([t \in DOMAIN jobIndex |->
                          [jobIndex[t] EXCEPT !.offeredAt = Recede(@),
                                              !.sentAt = Recede(@)]],
                      jobsByRestaurant, DOMAIN jobsByRestaurant, now)
    /\ seenBySerial' = [s \in DOMAIN seenBySerial |-> Recede(seenBySerial[s])]
    /\ UNCHANGED <<now, PRINTER_CONFIGS, CONFIG_LAST_RELOAD, serialToRestaurantList,
                   serialRR, printHistory, jobsByRestaurant, nextId, renders,
                   pendingDelete, resp>>

PollFair == Poll("S1") /\ Quiet
ElapseFair == Elapse /\ Quiet
RenderEnds == \E r \in renders : (RenderReady(r) \/ RenderFailed(r)) /\ Quiet
DeleteEnds == \E t \in Tokens : DeleteFinish(t) /\ Quiet

NextFair ==
    \/ \E rid \in ValidIntakes : Intake(rid, "production", <<>>) /\ Quiet
    \/ RenderEnds
    \/ PollFair
    \/ \E t \in Tokens : Fetch(t, "image/png") /\ Quiet
    \/ \E t \in Tokens, c \in PrinterCodes : Delete(t, c) /\ Quiet
    \/ DeleteEnds
    \/ ElapseFair

SpecFair ==
    /\ Init /\ [][NextFair]_vars
    /\ WF_vars(PollFair) /\ WF_vars(ElapseFair)
    /\ WF_vars(RenderEnds) /\ WF_vars(DeleteEnds)

----------------------------------------------------------------------------
(* SpecIntake: the intake endpoint and its validation.  Requests come from
   two environments, well-formed or not, naming registered and unregistered
   tenants, while the config source answers each of them with nothing, with
   the fallback entries or with a list that adds a binding; renders end and
   the printer polls.  The clock stands still. *)

NextIntake ==
    \/ \E rid \in IntakeInputs, e \in RegistryEnvs, d \in FetchResults :
          Intake(rid, e, d) /\ Quiet
    \/ \E r \in renders : RenderReady(r) /\ Quiet
    \/ Poll("S1") /\ Quiet

SpecIntake == Init /\ [][NextIntake]_vars

----------------------------------------------------------------------------
(* SpecProtocol: the printer protocol under requests of every shape.  A GET
   or a DELETE may come without a token, for a token that is not indexed, or
   for a job in any state; a GET asks for the image or for another media
   type; a DELETE carries a success code, a failure code or none, in either
   case of letters.  Orders come in, renders end or fail and the printer
   polls.  The clock stands still: no offer or fetch times out, so that a
   token the observer sees offered twice was rejected in between. *)

\* the token parameter of a request: 0 when it is absent
RequestTokens == {0} \cup Tokens

NextProtocol ==
    \/ \E rid \in ValidIntakes : Intake(rid, "production", <<>>) /\ Quiet
    \/ \E r \in renders : RenderReady(r) /\ Quiet
    \/ \E r \in renders : RenderFailed(r) /\ Quiet
    \/ Poll("S1") /\ ObserveOffers("S1")
    \/ \E t \in RequestTokens, type \in MediaTypes : Fetch(t, type) /\ Quiet
    \/ \E t \in RequestTokens, c \in Codes : Delete(t, c) /\ Quiet
    \/ \E t \in Tokens : DeleteFinish(t) /\ Quiet

SpecProtocol == Init /\ [][NextProtocol]_vars

----------------------------------------------------------------------------
(* SpecLife: the whole life of a job, with the registry rebuilt under it.
   Everything SpecFair has (intake, renders that end or fail, polls, fetches,
   confirmations and rejections, the audit-log wait, time passing with the
   sweeper running), and POST /api/printers/reload-config loading a develop
   table that binds one more tenant to the printer.  The reload is forced,
   so it does not read the age of the cache, which Elapse does not keep. *)

NextLife ==
    \/ \E rid \in ValidIntakes : Intake(rid, "production", <<>>) /\ Quiet
    \/ RenderEnds
    \/ PollFair
    \/ \E t \in Tokens : Fetch(t, "image/png") /\ Quiet
    \/ \E t \in Tokens, c \in PrinterCodes : Delete(t, c) /\ Quiet
    \/ DeleteEnds
    \/ ElapseFair
    \/ ReloadConfig("develop", TRUE, CfgAdd) /\ Quiet

SpecLife == Init /\ [][NextLife]_vars

----------------------------------------------------------------------------
(* SpecQuery: the query endpoints asked at any moment while jobs are taken
   in, rendered and offered.  The tenants asked about are a registered one
   and one no intake ever named. *)

QueryTenants == {"tA", "tZ"}

QuerySerials == {"S1", "SX"}

NextQuery ==
    \/ \E rid \in ValidIntakes : Intake(rid, "production", <<>>) /\ Quiet
    \/ \E r \in renders : RenderReady(r) /\ Quiet
    \/ \E s \in QuerySerials : Poll(s) /\ Quiet
    \/ \E rid \in QueryTenants : DebugQueue(rid) /\ Quiet
    \/ GetPrintersOnline /\ Quiet
    \/ GetPrinters /\ Quiet
    \/ \E s \in QuerySerials : GetHistory(s) /\ Quiet
    \/ DebugSeen /\ Quiet

SpecQuery == Init /\ [][NextQuery]_vars

----------------------------------------------------------------------------
(* SpecRebind: bindings come and go.  A load for the develop environment
   binds the tenant tC to the printers S1 and S2; a later load takes the
   bindings away again, which leaves S1 with tA and tB and S2 with nothing.
   Jobs of tA and tC are taken in, offered, fetched and confirmed across the
   changes. *)

BindConfig == <<Entry("tC", "S1"), Entry("tC", "S2")>>

RebindIntakes == {<<"tA">>, <<"tC">>}

OkCode == <<"O", "K">>

NextRebind ==
    \/ ReloadConfig("develop", TRUE, BindConfig) /\ Quiet
    \/ ReloadConfig("develop", TRUE, FALLBACK_PRINTER_CONFIG) /\ Quiet
    \/ \E rid \in RebindIntakes : Intake(rid, "develop", <<>>) /\ Quiet
    \/ \E r \in renders : RenderReady(r) /\ Quiet
    \/ \E s \in SharedSerials : Poll(s) /\ ObserveOffers(s)
    \/ \E t \in Tokens : Fetch(t, "image/png") /\ Quiet
    \/ \E t \in Tokens : Delete(t, OkCode) /\ Quiet
    \/ \E t \in Tokens : DeleteFinish(t) /\ Quiet

SpecRebind == Init /\ [][NextRebind]_vars

----------------------------------------------------------------------------
(* SpecHistory: addToPrintHistory on its own, under a cap of HistoryCap.
   Each call records an entry for the next order on one of two serials, so
   the order ids tell the entries apart and give the order of the calls. *)

HistoryStages == {"received", "offered"}

AddHistory(serial, status) ==
    /\ nextId <= MaxEntries
    /\ printHistory' = addToPrintHistoryUpTo(printHistory, serial, "tA", status,
                                             nextId, HistoryCap)
    /\ nextId' = nextId + 1
    /\ UNCHANGED <<now, PRINTER_CONFIGS, CONFIG_LAST_RELOAD, serialToRestaurantList,
                   serialRR, jobsByRestaurant, jobIndex, seenBySerial, renders,
                   pendingDelete, resp>>

NextHistory ==
    \E s \in SharedSerials, st \in HistoryStages : AddHistory(s, st) /\ Quiet

SpecHistory == Init /\ [][NextHistory]_vars

----------------------------------------------------------------------------
(* SpecCodes: the confirmation under the result codes a printer or any other
   client may send: OK in every case, codes that start with 2, codes that
   contain but do not start with 2, prefixes and extensions of OK, the empty
   code (also the code of a request without the parameter). *)

ResultCodes ==
    {<<"O", "K">>, <<"o", "k">>, <<"O", "k">>, <<"o", "K">>,
     <<"2", "0", "0">>, <<"2", "0", "0", " ", "O", "K">>, <<"2">>, <<"2", "k">>,
     <<"5", "0", "0">>, <<"5", "2">>, <<"O">>, <<"O", "K", "2">>, <<" ", "O", "K">>,
     <<"K", "O">>, <<>>}

NextCodes ==
    \/ Intake(<<"tA">>, "production", <<>>) /\ Quiet
    \/ \E r \in renders : RenderReady(r) /\ Quiet
    \/ Poll("S1") /\ Quiet
    \/ \E t \in Tokens : Fetch(t, "image/png") /\ ObserveFetch(t)
    \/ \E t \in Tokens, c \in ResultCodes : Delete(t, c) /\ Quiet
    \/ \E t \in Tokens : DeleteFinish(t) /\ Quiet

SpecCodes == Init /\ [][NextCodes]_vars

----------------------------------------------------------------------------
(* SpecSent: one job and a printer that polls, fetches, fetches again and
   rejects, but never confirms, under the one-second clock and the punctual
   sweeper. *)

NextSent ==
    \/ nextId = 1 /\ Intake(<<"tA">>, "production", <<>>) /\ Quiet
    \/ \E r \in renders : RenderReady(r) /\ Quiet
    \/ Poll("S1") /\ Quiet
    \/ Fetch(1, "image/png") /\ ObserveFetch(1)
    \/ Delete(1, RejectCode) /\ Quiet
    \/ SecondUpTo(SentClock) /\ Quiet

SpecSent == Init /\ [][NextSent]_vars

----------------------------------------------------------------------------
(* SpecLimit: the render limiter under calls that arrive before and after
   the browser is up, and render functions that settle alone or in pairs. *)

Still == UNCHANGED <<pvars, offersBy, window, sentSince>>

NextLimit ==
    \/ \E c \in Calls : Submit(c) /\ Still
    \/ BrowserLaunched /\ Still
    \/ \E a, b \in Calls : FnSettles(a, b) /\ Still
    \/ RunEnter /\ Still
    \/ RunFinally /\ Still
    \/ RunResume /\ Still

SpecLimit == Init /\ [][NextLimit]_vars

\* SpecLimitFair: the limiter when Node runs every promise job it has queued
\* and the render function of every running call settles at some time, by
\* returning or by throwing
SpecLimitFair ==
    /\ SpecLimit
    /\ WF_vars(RunEnter /\ Still)
    /\ WF_vars(RunFinally /\ Still)
    /\ WF_vars(RunResume /\ Still)
    /\ \A a \in Calls : SF_vars(\E b \in Calls : FnSettles(a, b) /\ Still)

----------------------------------------------------------------------------
(* Claims *)

\* the tokens held by some tenant queue
Queued == UNION {SeqToSet(jobsByRestaurant[r]) : r \in DOMAIN jobsByRestaurant}

\* the position of a token in the queue of its tenant
PosOf(t) ==
    LET q == jobsByRestaurant[jobIndex[t].restaurantId]
    IN CHOOSE i \in 1..Len(q) : q[i] = t

\* C1: no poll offers a job whose content is null.  Whenever a poll answers
\* jobReady:true, the job it names had content when it was selected, and is
\* the job the poll set to offered.
C1_OfferHasContent ==
    [][(Poll("S1") /\ resp'.jobReady) =>
          /\ resp'.jobToken \in DOMAIN jobIndex
          /\ jobIndex[resp'.jobToken].content # 0
          /\ jobIndex'[resp'.jobToken].status = "offered"
          /\ jobIndex'[resp'.jobToken].content = jobIndex[resp'.jobToken].content]_vars

\* a poll has offered token 2 over the older token 1 of the same tenant, which
\* is queued and still waits for its render
C1_Witness ==
    /\ resp.jobReady /\ resp.jobToken = 2
    /\ DOMAIN jobIndex = {1, 2}
    /\ jobIndex[1].restaurantId = jobIndex[2].restaurantId
    /\ jobIndex[1].status = "queued" /\ jobIndex[1].content = 0
    /\ jobIndex[2].status = "offered" /\ jobIndex[2].offeredAt = now

\* C2: in every state, offered implies offered_at set, sent implies sent_at
\* set, queued implies both timestamps null.
C2_TimestampsMatchStatus ==
    \A t \in DOMAIN jobIndex :
        /\ jobIndex[t].status = "offered" => jobIndex[t].offeredAt # 0
        /\ jobIndex[t].status = "sent" => jobIndex[t].sentAt # 0
        /\ jobIndex[t].status = "queued" =>
              jobIndex[t].offeredAt = 0 /\ jobIndex[t].sentAt = 0

\* a job is in flight at time t: offered or sent (or confirmed and waiting to
\* be removed), and not stale, so that no sweep at t rewinds it
InFlight(j, t) == j.status \in {"offered", "sent", "done"} /\ SweepJob(j, t) = j

\* C3: a token is never offered twice while it is in flight.  A poll of any
\* serial that answers with token X finds X queued, or rewinds it itself
\* because its offer or fetch has timed out; it never hands out a token that
\* another poll handed out and that has not been rewound since, and it leaves
\* every other job in flight as it is.
C3_NoDoubleOffer ==
    [][\A s \in SharedSerials :
          (Poll(s) /\ resp'.jobReady) =>
              /\ resp'.jobToken \in DOMAIN jobIndex
              /\ ~InFlight(jobIndex[resp'.jobToken], now)
              /\ \A t \in DOMAIN jobIndex :
                    (t # resp'.jobToken /\ InFlight(jobIndex[t], now)) =>
                        jobIndex'[t] = jobIndex[t]]_vars

\* printer S1 holds token 1, in flight at the head of the queue of tB, and a
\* poll of printer S2 has skipped it and offered token 2 behind it
C3_Witness ==
    /\ resp.jobReady /\ resp.jobToken = 2
    /\ DOMAIN jobIndex = {1, 2}
    /\ jobIndex[1].restaurantId = "tB" /\ jobIndex[2].restaurantId = "tB"
    /\ jobIndex[1].status = "offered" /\ jobIndex[1].content # 0
    /\ jobIndex[2].status = "offered" /\ jobIndex[2].offeredAt = now
    /\ PosOf(1) < PosOf(2)
    /\ "S1" \in DOMAIN printHistory /\ printHistory["S1"][1].orderId = 1
    /\ "S2" \in DOMAIN printHistory /\ printHistory["S2"][1].orderId = 2
    /\ printHistory["S1"][1].status = "offered"
    /\ printHistory["S2"][1].status = "offered"

\* the tokens makeId has handed out that are no longer indexed
Removed == {t \in Tokens : t < nextId /\ t \notin DOMAIN jobIndex}

C5_FairShare ==
    \A s \in DOMAIN window :
        \A a, b \in DOMAIN window[s] : window[s][a] - window[s][b] <= 1

\* the tenant nextJobForSerial examines first at the next poll of the serial
FirstExamined(registry, rr, s) ==
    registry[s][((IF s \in DOMAIN rr THEN rr[s] ELSE 0) % Len(registry[s])) + 1]

\* C9: a poll carrying a serial that is not in the registry answers
\* jobReady:false and changes no presence record, job, queue, cursor or
\* history entry.
C9_UnknownSerialNoEffect ==
    [][\A s \in PollSerials :
          (Poll(s) /\ s \notin DOMAIN serialToRestaurantList) =>
              /\ resp' = Reply(200, FALSE, 0, 0, <<>>, <<>>)
              /\ UNCHANGED <<seenBySerial, jobIndex, jobsByRestaurant, serialRR,
                             printHistory>>]_vars

\* C10: a reload that leaves the registry as it was leaves the round-robin
\* order as it was: for every serial that has been offered a job, the tenant
\* examined first by the next poll is the same before and after.
C10_ReloadKeepsOrder ==
    [][\A e \in RegistryEnvs, f \in BOOLEAN, d \in FetchResults :
          (ReloadConfig(e, f, d) /\ serialToRestaurantList' = serialToRestaurantList) =>
              \A s \in DOMAIN serialRR :
                  FirstExamined(serialToRestaurantList', serialRR', s) =
                      FirstExamined(serialToRestaurantList, serialRR, s)]_vars

\* a job the sweeper must not leave behind at time t
Stale(j, t) ==
    \/ j.status = "offered" /\ j.offeredAt < t - OFFER_TIMEOUT
    \/ j.status = "sent" /\ j.sentAt < t - SENT_TIMEOUT

\* C6: immediately after the sweeper has run at time t, no job of any tenant
\* queue is offered with offered_at < t - offer_timeout, or sent with
\* sent_at < t - sent_timeout.
C6_SweepLeavesNoStale ==
    [][Sweep => \A t \in Queued' : ~Stale(jobIndex'[t], now)]_vars

\* the sweeper has just rewound token 1, fetched more than sent_timeout ago,
\* and left token 2 alone, offered less than offer_timeout ago
C6_Witness ==
    /\ DOMAIN jobIndex = {1, 2}
    /\ jobIndex[1].status = "queued" /\ jobIndex[1].content # 0
    /\ jobIndex[1].offeredAt # 0 /\ now - jobIndex[1].offeredAt > SENT_TIMEOUT
    /\ jobIndex[2].status = "offered" /\ jobIndex[2].offeredAt = now

\* the ready jobs a poll of the serial finds once it has swept the queues of
\* the serial's tenants
ReadyJobs(serial) ==
    LET rids == serialToRestaurantList[serial]
        qs == QueuesFor(jobsByRestaurant, rids, 1)
        swept == SweepQueues(jobIndex, qs, SeqToSet(rids), now)
    IN {t \in DOMAIN swept :
           /\ swept[t].restaurantId \in SeqToSet(rids)
           /\ t \in SeqToSet(qs[swept[t].restaurantId])
           /\ swept[t].status = "queued" /\ swept[t].content # 0}

\* an offer that is neither fetched nor confirmed is rewound before it is
\* OFFER_TIMEOUT + SWEEP_INTERVAL seconds old
RewoundInTime ==
    \A t \in DOMAIN jobIndex :
        jobIndex[t].status = "offered" =>
            now - jobIndex[t].offeredAt < OFFER_TIMEOUT + SWEEP_INTERVAL

\* C7 as written: an offer that is neither fetched nor confirmed is queued
\* again no later than 13 s after it was made, and the next poll of the same
\* serial returns the same token with the same content.
C7_SameTokenAgain ==
    /\ []RewoundInTime
    /\ [][Poll("S1") =>
             \A y \in ReadyJobs("S1") :
                 <<"S1", y>> \in DOMAIN offersBy =>
                     /\ resp'.jobReady /\ resp'.jobToken = y
                     /\ jobIndex'[y].content = offersBy[<<"S1", y>>].content]_vars

\* C7, amended: an offer that is neither fetched nor confirmed is queued again
\* no later than 13 s after it was made, and the next poll of the same serial
\* returns the same token with the same content when that job is the only
\* ready job in the queues of the serial's tenants.
C7_SameTokenWhenOnlyReady ==
    /\ []RewoundInTime
    /\ [][Poll("S1") =>
             \A y \in ReadyJobs("S1") :
                 (<<"S1", y>> \in DOMAIN offersBy /\ ReadyJobs("S1") = {y}) =>
                     /\ resp'.jobReady /\ resp'.jobToken = y
                     /\ jobIndex'[y].content = offersBy[<<"S1", y>>].content]_vars

\* token 1 timed out and a poll has just offered it a second time, with the
\* content it had, while token 2 waits for its render
C7_Witness ==
    /\ DOMAIN jobIndex = {1, 2}
    /\ <<"S1", 1>> \in DOMAIN offersBy /\ offersBy[<<"S1", 1>>].n = 2
    /\ resp.jobReady /\ resp.jobToken = 1
    /\ jobIndex[1].status = "offered" /\ jobIndex[1].offeredAt = now
    /\ jobIndex[1].content = offersBy[<<"S1", 1>>].content
    /\ jobIndex[2].content = 0

\* the job of the token has content and waits in its queue
ReadyToken(t) ==
    t \in DOMAIN jobIndex /\ jobIndex[t].status = "queued" /\ jobIndex[t].content # 0

\* the job of the token is with a printer
OutToken(t) == t \in DOMAIN jobIndex /\ jobIndex[t].status \in {"offered", "sent"}

\* the job of the token was positively confirmed
ConfirmedToken(t) ==
    t < nextId /\ (t \notin DOMAIN jobIndex \/ jobIndex[t].status = "done")

\* a job that has content and is not positively confirmed is offered again
OfferedAgain ==
    \A t \in Tokens : ReadyToken(t) ~> (OutToken(t) \/ ConfirmedToken(t))

\* a job does not stay offered or sent for ever
NeverStuck ==
    \A t \in Tokens : OutToken(t) ~> (ReadyToken(t) \/ ConfirmedToken(t))

\* C8: with the sweeper running and the printer polling, every job that has
\* content and has not been positively confirmed is eventually offered
\* again, and no job stays offered or sent for ever without being requeued
\* or removed.
C8_EventuallyOfferedAgain == OfferedAgain /\ NeverStuck

----------------------------------------------------------------------------
(* Claims on the intake endpoint *)

\* the tenants bound in the table the intake of the environment validates
\* against: the environment's table as its own reload leaves it
RegisteredFor(environment) ==
    {PRINTER_CONFIGS'[environment][i].restaurantId :
        i \in 1..Len(PRINTER_CONFIGS'[environment])}

\* the ids of a request that are not registered for its environment
UnknownIds(restaurantId, environment) ==
    SelectSeq(restaurantId, LAMBDA x : x \notin RegisteredFor(environment))

\* C11: an intake naming at least one unregistered tenant is rejected as a
\* whole.  It answers 404 naming the bad ids, creates no job for any tenant of
\* the request, the registered ones included, starts no render, and leaves
\* every tenant queue and the token index as they were.
C11_UnknownTenantRejectsAll ==
    [][\A rid \in IntakeInputs \ {NoRid}, e \in RegistryEnvs, d \in FetchResults :
          (Intake(rid, e, d) /\ Len(UnknownIds(rid, e)) > 0) =>
              /\ resp'.status = 404
              /\ resp'.bad = UnknownIds(rid, e)
              /\ resp'.tokens = <<>>
              /\ UNCHANGED <<jobsByRestaurant, jobIndex, nextId, renders>>]_vars

\* an intake has just been answered 404 naming tC, and the queue of tA holds
\* the one job an earlier intake created, nothing more
C11_Witness ==
    /\ resp.status = 404 /\ resp.bad = <<"tC">>
    /\ DOMAIN jobIndex = {1} /\ nextId = 2
    /\ jobIndex[1].restaurantId = "tA"
    /\ jobsByRestaurant["tA"] = <<1>>
    /\ "tC" \notin DOMAIN jobsByRestaurant

\* C12: an intake that fails validation (no restaurantId: 400, an unknown
\* tenant: 404) leaves all dispatch state unchanged: the job queues, the
\* token index, the serial->tenant registry, the round-robin cursors, the
\* presence records and the history are the same after it as before it.
C12_FailedValidationNoEffect ==
    [][\A rid \in IntakeInputs, e \in RegistryEnvs, d \in FetchResults :
          (Intake(rid, e, d) /\ resp'.status \in {400, 404}) =>
              UNCHANGED <<jobsByRestaurant, jobIndex, serialToRestaurantList,
                          serialRR, seenBySerial, printHistory>>]_vars

\* the job object the creation loop builds for a tenant under a token
NewJob(token, rid) ==
    [id |-> token, restaurantId |-> rid, content |-> 0,
     status |-> "queued", offeredAt |-> 0, sentAt |-> 0]

\* the queue of a tenant, empty when the tenant has none yet
QueueOf(queues, rid) == IF rid \in DOMAIN queues THEN queues[rid] ELSE <<>>

\* C13: a valid intake naming k tenants creates exactly k jobs with k pairwise
\* distinct, fresh tokens: one job appended at the tail of the queue of each
\* named tenant, queued, with null content and null timestamps, indexed by
\* its token; no other job or queue changes; and the 202 lists exactly those
\* k tokens, in the order of the request, while the render is still pending.
C13_IntakeCreatesOnePerTenant ==
    [][\A rid \in ValidIntakes :
          Intake(rid, "production", <<>>) =>
              LET k == Len(rid)
                  toks == resp'.tokens
              IN /\ resp'.status = 202 /\ Len(toks) = k
                 /\ \A i, j \in 1..k : i # j => toks[i] # toks[j]
                 /\ \A i \in 1..k : toks[i] \notin DOMAIN jobIndex
                 /\ DOMAIN jobIndex' = DOMAIN jobIndex \cup SeqToSet(toks)
                 /\ \A t \in DOMAIN jobIndex : jobIndex'[t] = jobIndex[t]
                 /\ \A i \in 1..k : jobIndex'[toks[i]] = NewJob(toks[i], rid[i])
                 /\ \A i \in 1..k :
                       jobsByRestaurant'[rid[i]] =
                           Append(QueueOf(jobsByRestaurant, rid[i]), toks[i])
                 /\ \A r \in DOMAIN jobsByRestaurant' \ SeqToSet(rid) :
                       r \in DOMAIN jobsByRestaurant
                           /\ jobsByRestaurant'[r] = jobsByRestaurant[r]
                 /\ toks \in renders' /\ toks \notin renders]_vars

\* an intake naming tA and tB has just been answered with two tokens; each
\* tenant's queue holds its job, queued and without content, and the render
\* of the intake has not ended
C13_Witness ==
    /\ resp.status = 202 /\ resp.tokens = <<1, 2>>
    /\ jobsByRestaurant = [r \in {"tA", "tB"} |-> IF r = "tA" THEN <<1>> ELSE <<2>>]
    /\ DOMAIN jobIndex = {1, 2}
    /\ jobIndex[1] = NewJob(1, "tA") /\ jobIndex[2] = NewJob(2, "tB")
    /\ renders = {<<1, 2>>}

----------------------------------------------------------------------------
(* Claims on the printer protocol *)

\* everything a request can change but the response
Dispatch == <<now, PRINTER_CONFIGS, CONFIG_LAST_RELOAD, serialToRestaurantList,
              serialRR, printHistory, jobsByRestaurant, jobIndex, seenBySerial,
              nextId, renders, pendingDelete>>

\* C14: a fetch with type image/png answers 404 for an unknown token and
\* changes no state; answers 200 jobReady:false for a known token without
\* content and changes no state; and for a known token with content sets the
\* job to sent, records sent_at = now, and answers 200 with the content of the
\* job and a Content-Length equal to its length.
C14_FetchServesOrDeclines ==
    [][\A t \in Tokens :
          Fetch(t, "image/png") =>
              IF t \notin DOMAIN jobIndex
              THEN resp' = Status(404) /\ UNCHANGED Dispatch
              ELSE IF jobIndex[t].content = 0
              THEN /\ resp'.status = 200 /\ ~resp'.jobReady /\ resp'.body = 0
                   /\ UNCHANGED Dispatch
              ELSE /\ jobIndex' = [jobIndex EXCEPT ![t] =
                                     [@ EXCEPT !.status = "sent", !.sentAt = now]]
                   /\ resp'.status = 200
                   /\ resp'.body = jobIndex[t].content
                   /\ resp'.length = ByteLength(jobIndex[t].content)]_vars

\* token 2, offered after the clock has moved, has just been fetched: it is
\* sent as of now and its content went out with its length, while token 1
\* waits in its queue with content
C14_Witness ==
    /\ DOMAIN jobIndex = {1, 2}
    /\ now > BootTime
    /\ jobIndex[2].status = "sent" /\ jobIndex[2].sentAt = now
    /\ jobIndex[2].offeredAt = now
    /\ jobIndex[1].status = "queued" /\ jobIndex[1].content # 0
    /\ resp.status = 200 /\ resp.body = jobIndex[2].content
    /\ resp.length = ByteLength(jobIndex[2].content)

\* C15: a GET that names a token and asks for a type other than image/png
\* answers 415 and changes the status and the timestamps of no job, whatever
\* the state of the job it names.
C15_WrongTypeNoTransition ==
    [][\A t \in Tokens, type \in MediaTypes \ {"image/png"} :
          Fetch(t, type) =>
              /\ resp' = Status(415)
              /\ DOMAIN jobIndex' = DOMAIN jobIndex
              /\ \A u \in DOMAIN jobIndex :
                    /\ jobIndex'[u].status = jobIndex[u].status
                    /\ jobIndex'[u].offeredAt = jobIndex[u].offeredAt
                    /\ jobIndex'[u].sentAt = jobIndex[u].sentAt]_vars

\* a GET has just been answered 415 while both tokens are jobs with content
\* that a printer holds: one offered, one fetched
C15_Witness ==
    /\ resp = Status(415)
    /\ DOMAIN jobIndex = {1, 2}
    /\ jobIndex[1].content # 0 /\ jobIndex[2].content # 0
    /\ {jobIndex[1].status, jobIndex[2].status} = {"offered", "sent"}

\* C17: every DELETE that names a token is answered 200, whether its code
\* means success or failure and whether the token is indexed or not: the
\* handler answers 200 at once, or (success code, indexed token) waits for the
\* audit log and answers 200 when the wait is over.  A DELETE for a token
\* that is not in the index changes no state.
C17_DeleteAnswers200 ==
    [][/\ \A t \in Tokens, c \in Codes :
            Delete(t, c) =>
                /\ \/ resp' = Status(200)
                   \/ /\ t \in DOMAIN jobIndex /\ IsSuccessCode(c)
                      /\ t \in pendingDelete' /\ resp' = resp
                /\ t \notin DOMAIN jobIndex =>
                      resp' = Status(200) /\ UNCHANGED Dispatch
       /\ \A t \in Tokens : DeleteFinish(t) => resp' = Status(200)]_vars

\* a DELETE with a failure code has just been answered 200 (the job it named
\* is queued again and the history of the printer ends in 'failed'), and the
\* other token is one that was confirmed and removed before
C17_Witness ==
    /\ resp = Status(200)
    /\ DOMAIN jobIndex = {2} /\ 1 \in Removed
    /\ jobIndex[2].status = "queued" /\ jobIndex[2].content # 0
    /\ "S1" \in DOMAIN printHistory
    /\ printHistory["S1"][1].status = "failed" /\ printHistory["S1"][1].orderId = 2

\* the place of a tenant in the rotation the next poll of the serial walks:
\* 0 for the tenant under the cursor
RotationRank(s, rid) ==
    LET lists == serialToRestaurantList[s]
        start == IF s \in DOMAIN serialRR THEN serialRR[s] ELSE 0
        i == CHOOSE k \in 1..Len(lists) : lists[k] = rid
    IN (i - 1 - start + Len(lists)) % Len(lists)

\* job x comes before job y in the rotation of the serial: its tenant is
\* examined earlier, or it is the same tenant's and earlier in the queue
Precedes(s, x, y) ==
    \/ RotationRank(s, jobIndex[x].restaurantId) < RotationRank(s, jobIndex[y].restaurantId)
    \/ /\ jobIndex[x].restaurantId = jobIndex[y].restaurantId
       /\ PosOf(x) < PosOf(y)

\* C16: a DELETE with a failure code for a known token sets the job to queued
\* and clears offered_at and sent_at; the job keeps its content and its place
\* in the queue of its tenant, and no other job or queue changes.  The next
\* poll of the serial then returns the same token, with the same content,
\* when the job has content and no ready job precedes it in the rotation.
C16_RejectRequeuesInPlace ==
    [][/\ \A t \in DOMAIN jobIndex, c \in Codes :
            (Delete(t, c) /\ ~IsSuccessCode(c)) =>
                /\ jobIndex' = [jobIndex EXCEPT ![t] =
                                  [@ EXCEPT !.status = "queued", !.offeredAt = 0,
                                            !.sentAt = 0]]
                /\ jobsByRestaurant' = jobsByRestaurant
       /\ Poll("S1") =>
            \A y \in ReadyJobs("S1") :
                (/\ <<"S1", y>> \in DOMAIN offersBy
                 /\ \A x \in ReadyJobs("S1") : ~Precedes("S1", x, y)) =>
                    /\ resp'.jobReady /\ resp'.jobToken = y
                    /\ jobIndex'[y].content = offersBy[<<"S1", y>>].content]_vars

\* token 1 was offered, fetched and rejected, and a poll has just offered it
\* again, with the content it had, ahead of token 2 behind it in the queue
C16_Witness ==
    /\ DOMAIN jobIndex = {1, 2}
    /\ jobIndex[1].restaurantId = jobIndex[2].restaurantId
    /\ <<"S1", 1>> \in DOMAIN offersBy /\ offersBy[<<"S1", 1>>].n = 2
    /\ <<"S1", 2>> \notin DOMAIN offersBy
    /\ resp.jobReady /\ resp.jobToken = 1
    /\ jobIndex[1].status = "offered" /\ jobIndex[1].sentAt = 0
    /\ jobIndex[1].content = offersBy[<<"S1", 1>>].content
    /\ jobIndex[2].status = "queued" /\ jobIndex[2].content # 0
    /\ printHistory["S1"][1] = [restaurantId |-> jobIndex[1].restaurantId,
                                status |-> "offered", orderId |-> 1]

----------------------------------------------------------------------------
(* Claims on the life of a job *)

\* C18: once content is attached to a job it never changes: whatever step
\* comes next (offer, fetch, reject, sweep, registry rebuild, the render
\* callback of another intake), the job has the same content for as long as
\* it is indexed, so a requeued job is offered again with the same content.
C18_ContentNeverChanges ==
    [][\A t \in DOMAIN jobIndex :
          (jobIndex[t].content # 0 /\ t \in DOMAIN jobIndex') =>
              jobIndex'[t].content = jobIndex[t].content]_vars

\* token 1 got its content and was handed to the printer, which has just
\* rejected it: it is queued again with the content of its render, while the
\* registry has been rebuilt with a third tenant and the render of a later
\* intake has given token 2 a content of its own
C18_Witness ==
    /\ DOMAIN jobIndex = {1, 2}
    /\ jobIndex[1].content = 1 /\ jobIndex[2].content = 2
    /\ Len(serialToRestaurantList["S1"]) = 3
    /\ jobIndex[1].status = "queued"
    /\ jobIndex[1].offeredAt = 0 /\ jobIndex[1].sentAt = 0
    /\ printHistory["S1"][1].status = "failed" /\ printHistory["S1"][1].orderId = 1
    /\ resp = Status(200)

\* C19: a job leaves the queue of its tenant and the token index only through
\* a positive confirmation that set it to done: the only step that takes a
\* token out of either is the end of the audit-log wait of a DELETE with a
\* success code, and every such wait was begun by a DELETE that set the job
\* to done.  No sweep, reject, render failure, fetch, poll or registry
\* rebuild removes a job.
C19_RemovedOnlyWhenConfirmed ==
    [][/\ \A t \in DOMAIN jobIndex :
            (t \notin DOMAIN jobIndex' \/ (t \in Queued /\ t \notin Queued')) =>
                t \in pendingDelete /\ DeleteFinish(t)
       /\ \A t \in pendingDelete' \ pendingDelete :
            /\ \E c \in PrinterCodes : IsSuccessCode(c) /\ Delete(t, c)
            /\ jobIndex'[t].status = "done"]_vars

\* token 1 was confirmed and is gone, while token 2, whose render failed,
\* is still in its queue after the registry was rebuilt and time has passed
C19_Witness ==
    /\ 1 \in Removed /\ 1 \notin Queued
    /\ DOMAIN jobIndex = {2} /\ 2 \in Queued
    /\ jobIndex[2].status = "failed"
    /\ Len(serialToRestaurantList["S1"]) = 3
    /\ pendingDelete = {}

\* the jobs of the queue of a tenant that are queued with content
ReadyOf(rid) ==
    {t \in SeqToSet(QueueOf(jobsByRestaurant, rid)) :
        jobIndex[t].status = "queued" /\ jobIndex[t].content # 0}

\* C20: within one tenant jobs are offered in the order they were created,
\* among those with content.  Whenever a poll offers a job of a tenant, the
\* job is the first in the tenant's queue, and the earliest created, of the
\* jobs that are queued with content when the poll selects (once it has swept
\* the queue); and no job of the tenant that was queued with content before
\* the poll and was created earlier is passed over.
C20_FifoWithinTenant ==
    [][(Poll("S1") /\ resp'.jobReady) =>
          LET y == resp'.jobToken
              rid == jobIndex[y].restaurantId
              ready == {t \in ReadyJobs("S1") : jobIndex[t].restaurantId = rid}
          IN /\ y \in ready
             /\ \A x \in ready : PosOf(y) <= PosOf(x) /\ y <= x
             /\ \A x \in ReadyOf(rid) : y <= x]_vars

\* both jobs of one tenant were ready and a poll has just offered the older
\* one; the younger one waits behind it, queued with content
C20_Witness ==
    /\ DOMAIN jobIndex = {1, 2}
    /\ jobIndex[1].restaurantId = jobIndex[2].restaurantId
    /\ PosOf(1) < PosOf(2)
    /\ resp.jobReady /\ resp.jobToken = 1
    /\ jobIndex[1].status = "offered" /\ jobIndex[1].offeredAt = now
    /\ jobIndex[2].status = "queued" /\ jobIndex[2].content # 0
    /\ jobIndex[2].offeredAt = 0 /\ jobIndex[2].sentAt = 0

----------------------------------------------------------------------------
(* Claims on the registry, presence and the query surface *)

\* C21: a poll of serial S only ever offers a job whose tenant is in the
\* tenant list the registry holds for S at the time of the poll; a job of a
\* tenant not bound to S is never returned to S.
C21_OfferWithinTenantList ==
    [][\A s \in SharedSerials :
          (Poll(s) /\ resp'.jobReady) =>
              /\ s \in DOMAIN serialToRestaurantList
              /\ resp'.jobToken \in DOMAIN jobIndex
              /\ jobIndex[resp'.jobToken].restaurantId
                    \in SeqToSet(serialToRestaurantList[s])
              /\ resp'.jobToken
                    \in SeqToSet(jobsByRestaurant'[jobIndex[resp'.jobToken].restaurantId])]_vars

\* printer S2, bound to tB alone, has polled and been offered the job of tB,
\* passing over the older ready job of tA, which only S1 serves
C21_Witness ==
    /\ serialToRestaurantList["S1"] = <<"tA", "tB">>
    /\ "S2" \in DOMAIN serialToRestaurantList
    /\ serialToRestaurantList["S2"] = <<"tB">>
    /\ DOMAIN jobIndex = {1, 2}
    /\ jobIndex[1].restaurantId = "tA" /\ jobIndex[2].restaurantId = "tB"
    /\ jobIndex[1].status = "queued" /\ jobIndex[1].content # 0
    /\ jobIndex[2].status = "offered" /\ jobIndex[2].offeredAt = now
    /\ resp.jobReady /\ resp.jobToken = 2
    /\ "S2" \in DOMAIN printHistory /\ printHistory["S2"][1].orderId = 2
    /\ printHistory["S2"][1].status = "offered"

\* C22: every poll of a registered serial sets the serial's last-seen time
\* to the time of the poll, whether or not a job is offered; and a serial is
\* classified online exactly when it has been seen and now - last_seen is at
\* most 15 s, offline otherwise, also when it has never been seen.
C22_PresenceFollowsPolls ==
    /\ [](\A s \in PollSerials :
             /\ PrinterStatus(s) \in {"online", "offline"}
             /\ PrinterStatus(s) = "online" <=>
                   (s \in DOMAIN seenBySerial /\ now - seenBySerial[s] <= 15)
             /\ s \in OnlinePrinters <=> PrinterStatus(s) = "online")
    /\ [][Poll("S1") =>
             /\ "S1" \in DOMAIN serialToRestaurantList
             /\ seenBySerial'["S1"] = now]_vars

\* the printer polled exactly 15 s ago, was offered nothing, and counts as
\* online still
C22_Witness ==
    /\ "S1" \in DOMAIN seenBySerial
    /\ now - seenBySerial["S1"] = 15
    /\ PrinterStatus("S1") = "online" /\ "S1" \in OnlinePrinters
    /\ ~resp.jobReady /\ resp.status = 200
    /\ jobIndex = <<>>

\* C23: a request to a query endpoint (the configured-printer list, the
\* online list, the history of a serial, the queue of a tenant, the presence
\* dump) leaves the dispatch state as it was: the set of tenant queues and
\* their jobs, the token index, the cursors, the presence records and the
\* history.
C23_QueriesChangeNothing ==
    [][(\/ \E rid \in QueryTenants : DebugQueue(rid)
        \/ GetPrintersOnline
        \/ GetPrinters
        \/ \E s \in QuerySerials : GetHistory(s)
        \/ DebugSeen) => UNCHANGED Dispatch]_vars

\* every query endpoint but the queue introspection leaves the state alone
QueriesButDebugQueueChangeNothing ==
    [][(\/ GetPrintersOnline
        \/ GetPrinters
        \/ \E s \in QuerySerials : GetHistory(s)
        \/ DebugSeen) => UNCHANGED Dispatch]_vars

\* the queue introspection leaves the queues that exist, the index and the
\* rest alone; it can only add an empty queue for the tenant asked about
DebugQueueAddsAtMostAnEmptyQueue ==
    [][\A rid \in QueryTenants : DebugQueue(rid) =>
          /\ \A r \in DOMAIN jobsByRestaurant : jobsByRestaurant'[r] = jobsByRestaurant[r]
          /\ DOMAIN jobsByRestaurant' = DOMAIN jobsByRestaurant \cup {rid}
          /\ jobsByRestaurant'[rid] = queueFor(jobsByRestaurant, rid)[rid]
          /\ UNCHANGED <<jobIndex, serialRR, seenBySerial, printHistory>>]_vars

----------------------------------------------------------------------------
(* Claims on the background render *)

\* a render that names the token is still in flight
RenderPending(t) == \E r \in renders : t \in SeqToSet(r)

\* C24: when the render of an intake fails, a job of the intake becomes failed
\* only if it is queued and without content at that moment; a job of the
\* intake in any other state is left as it was.
C24_FailsOnlyQueuedContentless ==
    [][\A r \in renders : RenderFailed(r) =>
          \A t \in SeqToSet(r) \cap DOMAIN jobIndex :
             IF jobIndex[t].status = "queued" /\ jobIndex[t].content = 0
             THEN jobIndex'[t] = [jobIndex[t] EXCEPT !.status = "failed"]
             ELSE jobIndex'[t] = jobIndex[t]]_vars

\* a failed render is over for good: its jobs never get content, and no
\* poll offers them
FailedRenderJobsStayUnoffered ==
    [][\A t \in DOMAIN jobIndex \cap DOMAIN jobIndex' :
          (jobIndex[t].content = 0 /\ ~RenderPending(t)) =>
             /\ jobIndex'[t].content = 0
             /\ jobIndex'[t].status # "offered"
             /\ ~RenderPending(t)']_vars

\* the failed render marks every job of the intake that is queued and
\* without content
FailedRenderMarksQueued ==
    [][\A r \in renders : RenderFailed(r) =>
          \A t \in SeqToSet(r) \cap DOMAIN jobIndex :
             (jobIndex[t].status = "queued" /\ jobIndex[t].content = 0)
                => jobIndex'[t].status = "failed"]_vars

\* C25: when the render of an intake completes, every job of the intake
\* still in the index gets the same content, its status stays what it was,
\* and the tokens of the intake no longer in the index are passed over:
\* nothing is created for them and nothing else changes.
C25_AttachKeepsStatus ==
    [][\A r \in renders : RenderReady(r) =>
          /\ DOMAIN jobIndex' = DOMAIN jobIndex
          /\ \A t \in DOMAIN jobIndex :
                IF t \in SeqToSet(r)
                THEN jobIndex'[t] = [jobIndex[t] EXCEPT !.content = r[1]]
                ELSE jobIndex'[t] = jobIndex[t]]_vars

\* the completed render gives one content to every job of the intake still
\* indexed, passes over the tokens that are gone, and touches no queue
AttachSameContentToAll ==
    [][\A r \in renders : RenderReady(r) =>
          /\ DOMAIN jobIndex' = DOMAIN jobIndex
          /\ \A t \in DOMAIN jobIndex :
                IF t \in SeqToSet(r)
                THEN jobIndex'[t] = [jobIndex[t] EXCEPT !.content = r[1],
                                                        !.status = "queued"]
                ELSE jobIndex'[t] = jobIndex[t]
          /\ UNCHANGED <<jobsByRestaurant, printHistory, serialRR>>]_vars

\* a render of two tenants completes after one of its jobs has gone
AttachPassesOverGone ==
    \E r \in renders : Len(r) = 2 /\ r[1] \notin DOMAIN jobIndex /\ r[2] \in DOMAIN jobIndex

----------------------------------------------------------------------------
(* Claims on the render limiter *)

\* C26: the limiter never has more than 2 render functions running: its
\* count never exceeds its max, and the count is the number of calls inside
\* their render function or between its end and the finally block.
C26_AtMostMaxRunning ==
    /\ renderLimit.running <= RENDER_LIMIT_MAX
    /\ Cardinality({c \in Calls : runPc[c] = "running"}) <= RENDER_LIMIT_MAX
    /\ renderLimit.running =
          Cardinality({c \in Calls : runPc[c] \in {"running", "settled"}})

\* a waiter woken by a completion has resumed: two functions run again and
\* another call still waits
C26_Witness ==
    /\ renderLimit.running = 2
    /\ runPc = <<"done", "running", "running", "waiting">>
    /\ renderLimit.q = <<4>>
    /\ microtasks = <<>>

----------------------------------------------------------------------------
(* Claims on registry changes *)

\* no serial is bound to the tenant
Unbound(rid) ==
    \A s \in DOMAIN serialToRestaurantList : rid \notin SeqToSet(serialToRestaurantList[s])

\* C27: once the registry has been rebuilt without a binding, a poll of the
\* serial selects from the tenant list the registry holds now: it offers only
\* jobs of those tenants, and nothing when the serial has no tenant left.
\* A job offered before the change is still served to a fetch by its token
\* and still confirmed and removed by its token.
C27_PollsFollowRebuild ==
    [][/\ \A s \in SharedSerials : Poll(s) =>
             IF s \notin DOMAIN serialToRestaurantList
             THEN ~resp'.jobReady
             ELSE resp'.jobReady =>
                    jobIndex'[resp'.jobToken].restaurantId
                       \in SeqToSet(serialToRestaurantList[s])
       /\ \A t \in DOMAIN jobIndex :
             (/\ Unbound(jobIndex[t].restaurantId)
              /\ \E s \in SharedSerials : <<s, t>> \in DOMAIN offersBy) =>
                /\ Fetch(t, "image/png") =>
                      /\ resp'.status = 200 /\ resp'.body = jobIndex[t].content
                      /\ jobIndex'[t].status = "sent"
                /\ Delete(t, OkCode) =>
                      /\ jobIndex'[t].status = "done" /\ t \in pendingDelete'
                /\ DeleteFinish(t) =>
                      /\ t \notin DOMAIN jobIndex' /\ resp'.status = 200]_vars

\* the job of tC was offered to S2, the bindings of tC went away, and the
\* job has been fetched and confirmed all the same; S2 has polled since and
\* got nothing
C27_Witness ==
    /\ <<"S2", 1>> \in DOMAIN offersBy
    /\ "S2" \notin DOMAIN serialToRestaurantList
    /\ Unbound("tC")
    /\ 1 \notin DOMAIN jobIndex /\ nextId > 1
    /\ 2 \in DOMAIN jobIndex /\ jobIndex[2].restaurantId = "tC" /\ jobIndex[2].content # 0
    /\ jobIndex[2].status = "queued"
    /\ "S2" \in DOMAIN seenBySerial
    /\ resp = Reply(200, FALSE, 0, 0, <<>>, <<>>)

\* the tenants of the configuration held for the environment
RetainedIds(environment) ==
    {PRINTER_CONFIGS[environment][i].restaurantId :
        i \in 1..Len(PRINTER_CONFIGS[environment])}

\* C28: when the cache of an environment has expired and the fetch of its
\* configuration fails or returns no entry, the configurations, the registry
\* and the cursors stay exactly as they were, and the intake that asked for
\* the refresh goes on: it is validated against the configuration retained,
\* answering 404 with the tenants unknown to it and 202 otherwise.
C28_FailedFetchKeepsRegistry ==
    [][\A rid \in IntakeInputs, e \in RegistryEnvs :
          (/\ now - CONFIG_LAST_RELOAD[e] >= CONFIG_CACHE_TTL
           /\ Intake(rid, e, <<>>)) =>
              /\ UNCHANGED <<PRINTER_CONFIGS, CONFIG_LAST_RELOAD,
                             serialToRestaurantList, serialRR>>
              /\ IF rid = NoRid THEN resp'.status = 400
                 ELSE IF \E i \in DOMAIN rid : rid[i] \notin RetainedIds(e)
                 THEN /\ resp'.status = 404
                      /\ resp'.bad = SelectSeq(rid, LAMBDA x : x \notin RetainedIds(e))
                 ELSE /\ resp'.status = 202
                      /\ Len(resp'.tokens) = Len(rid)]_vars

\* tC is registered through the production configuration and the printer
\* has a cursor; an intake for tC in develop, whose configuration was never
\* loaded, is answered 404 from the configuration develop retains
C28_Witness ==
    /\ "tC" \in SeqToSet(serialToRestaurantList["S1"])
    /\ "tC" \in RetainedIds("production")
    /\ "S1" \in DOMAIN serialRR
    /\ CONFIG_LAST_RELOAD["develop"] = 0
    /\ resp.status = 404 /\ resp.bad = <<"tC">>

----------------------------------------------------------------------------
(* Claims on the history *)

\* the history of a serial, empty when it has none
HistoryOf(hist, serial) == IF serial \in DOMAIN hist THEN hist[serial] ELSE <<>>

\* C29: the history of a serial never holds more entries than the cap; a
\* new entry goes to the front, the entries before it keep their order, and
\* at the cap the oldest entry is the one dropped.
C29_HistoryCapped ==
    /\ [](\A s \in DOMAIN printHistory : Len(printHistory[s]) <= HistoryCap)
    /\ [][\A s \in SharedSerials, st \in HistoryStages : AddHistory(s, st) =>
             LET h == HistoryOf(printHistory, s)
                 g == HistoryOf(printHistory', s)
             IN /\ Len(g) = Min(Len(h) + 1, HistoryCap)
                /\ g[1] = [restaurantId |-> "tA", status |-> st, orderId |-> nextId]
                /\ \A i \in 2..Len(g) : g[i] = h[i - 1]
                /\ \A o \in SharedSerials \ {s} :
                      HistoryOf(printHistory', o) = HistoryOf(printHistory, o)]_vars

\* five entries were recorded for S1 alone: the three newest are kept,
\* newest first, and the two oldest are gone
C29_Witness ==
    /\ nextId = 6
    /\ DOMAIN printHistory = {"S1"}
    /\ [i \in 1..3 |-> printHistory["S1"][i].orderId] = <<5, 4, 3>>
    /\ Len(printHistory["S1"]) = 3

\* the newest entry of the serial's history is the stage of the token
Newest(hist, serial, status, t) ==
    /\ serial \in DOMAIN hist /\ Len(hist[serial]) > 0
    /\ hist[serial][1].status = status /\ hist[serial][1].orderId = t

\* the serials bound to the tenant
SerialsOf(rid) ==
    {s \in DOMAIN serialToRestaurantList : rid \in SeqToSet(serialToRestaurantList[s])}

\* C30: each stage of a job is recorded, when it happens, in the history of
\* the serial S the job is offered to: received at the intake, offered at
\* the poll of S, sent at the fetch, completed at the positive confirmation.
\* The entries of one history are in the order of their recording.
C30_StagesInHistoryOfSerial ==
    [][\A t \in Tokens, s \in SharedSerials :
          /\ (\E rid \in RebindIntakes : /\ Intake(rid, "develop", <<>>)
                                          /\ t \in DOMAIN jobIndex' \ DOMAIN jobIndex
                                          /\ s \in SerialsOf(rid[1]))
                => Newest(printHistory', s, "received", t)
          /\ (Poll(s) /\ resp'.jobReady /\ resp'.jobToken = t)
                => Newest(printHistory', s, "offered", t)
          /\ (/\ <<s, t>> \in DOMAIN offersBy /\ t \in DOMAIN jobIndex
              /\ jobIndex[t].status = "offered" /\ Fetch(t, "image/png"))
                => Newest(printHistory', s, "sent", t)
          /\ (/\ <<s, t>> \in DOMAIN offersBy /\ t \in DOMAIN jobIndex
              /\ jobIndex[t].status = "sent" /\ Delete(t, OkCode))
                => Newest(printHistory', s, "completed", t)]_vars

\* with one printer that is the first production entry of each of its
\* tenants, every stage of a job is recorded in the printer's history: the
\* received, offered, sent and completed entries, and after a reject the
\* failed entry and the offered entry of the next poll
StagesRecordedOnTheOnePrinter ==
    [][\A t \in Tokens :
          /\ (\E rid \in ValidIntakes : Intake(rid, "production", <<>>)
                                         /\ t \in DOMAIN jobIndex' \ DOMAIN jobIndex
                                         /\ t = nextId' - 1)
                => Newest(printHistory', "S1", "received", t)
          /\ (Poll("S1") /\ resp'.jobReady /\ resp'.jobToken = t)
                => Newest(printHistory', "S1", "offered", t)
          /\ (/\ t \in DOMAIN jobIndex /\ jobIndex[t].content # 0
              /\ Fetch(t, "image/png"))
                => Newest(printHistory', "S1", "sent", t)
          /\ (t \in DOMAIN jobIndex /\ \E c \in Codes : Delete(t, c) /\ IsSuccessCode(c))
                => Newest(printHistory', "S1", "completed", t)
          /\ (t \in DOMAIN jobIndex /\ \E c \in Codes : Delete(t, c) /\ ~IsSuccessCode(c))
                => Newest(printHistory', "S1", "failed", t)]_vars

----------------------------------------------------------------------------
(* Claims on the confirmation *)

\* the code, letters in either case, is OK
EqualsOkIgnoringCase(code) ==
    Len(code) = 2 /\ code[1] \in {"O", "o"} /\ code[2] \in {"K", "k"}

\* C31: a DELETE for an indexed job is a positive confirmation exactly when
\* its code is OK in any case or starts with 2: the job becomes done and is
\* removed when the handler finishes.  With any other code, the empty code
\* included, the job is queued again and stays in its queue and the index.
C31_SuccessCodes ==
    [][\A t \in DOMAIN jobIndex, c \in ResultCodes :
          Delete(t, c) =>
             IF EqualsOkIgnoringCase(c) \/ (Len(c) > 0 /\ c[1] = "2")
             THEN /\ jobIndex'[t].status = "done"
                  /\ t \in pendingDelete'
             ELSE /\ jobIndex'[t] = [jobIndex[t] EXCEPT !.status = "queued",
                                        !.offeredAt = 0, !.sentAt = 0]
                  /\ jobsByRestaurant' = jobsByRestaurant
                  /\ pendingDelete' = pendingDelete
                  /\ resp' = Status(200)]_vars

\* one job has been confirmed and removed; the other has just been
\* rejected: it is queued again with its content, alone in its queue, and
\* the history ends in its failed entry
C31_Witness ==
    /\ 1 \notin DOMAIN jobIndex /\ nextId = 3
    /\ printHistory["S1"][1] = [restaurantId |-> "tA", status |-> "failed", orderId |-> 2]
    /\ 2 \in DOMAIN jobIndex /\ jobIndex[2].status = "queued" /\ jobIndex[2].content # 0
    /\ jobsByRestaurant["tA"] = <<2>>
    /\ resp = Status(200)

----------------------------------------------------------------------------
(* Claims on the selector *)

\* C32: a poll of a serial with tenant list T of length n and cursor k
\* examines T[(k+i) mod n] for i = 0..n-1 in that order and offers the first
\* ready job of the first tenant that has one; the cursor becomes
\* (k+i+1) mod n.  When no tenant has a ready job nothing is offered, the
\* cursors stay as they are and no job changes.
C32_RotationFromCursor ==
    [][\A s \in PollSerials :
          (Poll(s) /\ s \in DOMAIN serialToRestaurantList) =>
             LET T == serialToRestaurantList[s]
                 n == Len(T)
                 k == IF s \in DOMAIN serialRR THEN serialRR[s] ELSE 0
                 hits == {i \in 0..(n - 1) : ReadyOf(T[((k + i) % n) + 1]) # {}}
             IN IF hits = {}
                THEN /\ ~resp'.jobReady
                     /\ serialRR' = serialRR
                     /\ jobIndex' = jobIndex
                ELSE LET i == CHOOSE x \in hits : \A y \in hits : x <= y
                         rid == T[((k + i) % n) + 1]
                         y == resp'.jobToken
                     IN /\ resp'.jobReady
                        /\ y \in ReadyOf(rid)
                        /\ \A x \in ReadyOf(rid) : PosOf(y) <= PosOf(x)
                        /\ serialRR' = Put(serialRR, s, (k + i + 1) % n)
                        /\ jobIndex' = [jobIndex EXCEPT ![y] =
                                          [@ EXCEPT !.status = "offered", !.offeredAt = now]]]_vars

\* the printer serves three tenants; its poll has just offered the job of
\* the second while an older job of the first is ready: the scan began at
\* the cursor, and the cursor now points at the third
C32_Witness ==
    /\ serialToRestaurantList["S1"] = <<"tA", "tB", "tC">>
    /\ resp.jobReady /\ resp.jobToken = 2
    /\ jobIndex[2].restaurantId = "tB" /\ jobIndex[2].status = "offered"
    /\ 1 \in ReadyOf("tA")
    /\ serialRR["S1"] = 2

\* no tenant of the serial has a job in its queue
NoJobFor(serial) ==
    serial \in DOMAIN serialToRestaurantList =>
        \A i \in DOMAIN serialToRestaurantList[serial] :
            QueueOf(jobsByRestaurant, serialToRestaurantList[serial][i]) = <<>>

\* C33: a poll of a serial none of whose tenants has a job answers
\* jobReady:false and leaves the token index, the jobs, the cursors and the
\* history as they are.  The first such poll may create the empty queues of
\* the serial's tenants; once they exist, as after any earlier poll of the
\* serial, the queues are left as they are too, however often it polls.
C33_IdlePollsChangeNothing ==
    [][(Poll("S1") /\ NoJobFor("S1")) =>
          /\ resp' = Reply(200, FALSE, 0, 0, <<>>, <<>>)
          /\ UNCHANGED <<jobIndex, serialRR, printHistory, serialToRestaurantList,
                         nextId, renders, pendingDelete>>
          /\ \A r \in DOMAIN jobsByRestaurant : jobsByRestaurant'[r] = jobsByRestaurant[r]
          /\ DOMAIN jobsByRestaurant' =
                DOMAIN jobsByRestaurant \cup SeqToSet(serialToRestaurantList["S1"])
          /\ \A r \in DOMAIN jobsByRestaurant' \ DOMAIN jobsByRestaurant :
                jobsByRestaurant'[r] = <<>>
          /\ NoJobFor("S1")']_vars

\* two jobs have come and gone, the cursor has moved, the history is not
\* empty, and the printer has just polled and got nothing
C33_Witness ==
    /\ jobIndex = <<>> /\ nextId = 3
    /\ NoJobFor("S1")
    /\ DOMAIN jobsByRestaurant = {"tA", "tB"}
    /\ "S1" \in DOMAIN serialRR /\ serialRR["S1"] = 1
    /\ "S1" \in DOMAIN printHistory
    /\ now > BootTime /\ seenBySerial["S1"] = now
    /\ resp = Reply(200, FALSE, 0, 0, <<>>, <<>>)

----------------------------------------------------------------------------
(* Claims on the lifecycle *)

\* the changes of status the lifecycle has
LifecycleTransitions ==
    {<<"queued", "offered">>, <<"offered", "sent">>, <<"queued", "sent">>,
     <<"sent", "done">>, <<"sent", "queued">>, <<"queued", "failed">>,
     <<"offered", "queued">>}

\* C34: whenever the status of a job changes, the change is one of the
\* lifecycle transitions: queued->offered, offered->sent, queued->sent,
\* sent->done, sent->queued, queued->failed, offered->queued.
C34_OnlyLifecycleTransitions ==
    [][\A t \in DOMAIN jobIndex \cap DOMAIN jobIndex' :
          jobIndex'[t].status # jobIndex[t].status =>
             <<jobIndex[t].status, jobIndex'[t].status>> \in LifecycleTransitions]_vars

----------------------------------------------------------------------------
(* Claims about the sent timeout *)

\* the job went from another status into sent and no fetch has touched it since
FetchedOnce(t) ==
    /\ t \in DOMAIN jobIndex /\ t \in DOMAIN sentSince
    /\ jobIndex[t].status = "sent"
    /\ jobIndex[t].sentAt = sentSince[t]

\* C35: with sent_timeout = 20 s and a 3 s sweeper tick, a job that a fetch
\* put into status sent at time t0 and that is never positively confirmed is
\* queued again no later than t0 + 23 s, whatever the printer does with the
\* token in the meantime, fetching it again included: no job is in status
\* sent 23 s or more after the fetch that made it sent.
C35_RequeuedWithin23 ==
    \A t \in DOMAIN jobIndex :
        (jobIndex[t].status = "sent" /\ t \in DOMAIN sentSince) =>
            now - sentSince[t] < SENT_TIMEOUT + SWEEP_INTERVAL

\* what holds of the code: the 23 s run from the latest fetch, and so from the
\* first one when the printer does not fetch again
RequeuedWithin23OfLatestFetch ==
    \A t \in DOMAIN jobIndex :
        jobIndex[t].status = "sent" =>
            now - jobIndex[t].sentAt < SENT_TIMEOUT + SWEEP_INTERVAL

\* the bound is met with nothing to spare: a job fetched once is still sent
\* 22 s after the fetch
FetchedOnceStillSentAt22 ==
    \E t \in DOMAIN jobIndex :
        FetchedOnce(t) /\ now - sentSince[t] = SENT_TIMEOUT + SWEEP_INTERVAL - 1

----------------------------------------------------------------------------
(* Claims about the sweep inside a poll *)

\* the tenants the serial is bound to
TenantsOf(serial) ==
    IF serial \in DOMAIN serialToRestaurantList
    THEN SeqToSet(serialToRestaurantList[serial]) ELSE {}

\* C36: a poll from serial S leaves every job whose tenant is not in the
\* tenant list of S as it was: its status and its timestamps do not change
\* (the sweep inside the poll touches the queues of the tenants of S only).
C36_PollSweepsOwnTenants ==
    [][\A s \in SharedSerials :
          Poll(s) =>
             \A t \in DOMAIN jobIndex :
                 jobIndex[t].restaurantId \notin TenantsOf(s) =>
                     /\ t \in DOMAIN jobIndex'
                     /\ jobIndex'[t].status = jobIndex[t].status
                     /\ jobIndex'[t].offeredAt = jobIndex[t].offeredAt
                     /\ jobIndex'[t].sentAt = jobIndex[t].sentAt]_vars

\* S2, bound to tB alone, has just polled while a job of tA is past its offer
\* timeout and still offered
C36_Witness ==
    /\ TenantsOf("S2") = {"tB"}
    /\ "S2" \in DOMAIN seenBySerial /\ seenBySerial["S2"] = now
    /\ \E t \in DOMAIN jobIndex :
          /\ jobIndex[t].restaurantId = "tA"
          /\ jobIndex[t].status = "offered"
          /\ now - jobIndex[t].offeredAt > OFFER_TIMEOUT

----------------------------------------------------------------------------
(* Claims about confirmed jobs *)

\* C37: once a positive confirmation has set the status of a job to done, the
\* status stays done until the job is removed: no step taken while the
\* confirmation waits for its audit log (a fetch, a reject, a poll, a render
\* callback) changes it to queued, offered or sent.
C37_DoneIsTerminal ==
    [][\A t \in DOMAIN jobIndex :
          jobIndex[t].status = "done" =>
              \/ t \notin DOMAIN jobIndex'
              \/ jobIndex'[t].status = "done"]_vars

\* the part of C37 about offers: a poll never hands out a job that a positive
\* confirmation is still holding
ConfirmedNeverOffered ==
    [][Poll("S1") => (resp'.jobReady => resp'.jobToken \notin pendingDelete)]_vars

\* C38: a job leaves its queue only after its content was fetched at least
\* once: every job that a positive confirmation removes was in status sent at
\* some earlier point.
C38_RemovedWereSent ==
    [][\A t \in DOMAIN jobIndex \ DOMAIN jobIndex' : t \in DOMAIN sentSince]_vars

----------------------------------------------------------------------------
(* Claims about the token index and the queues *)

\* how many times the token stands in the queue
Occurrences(q, t) == Cardinality({i \in 1..Len(q) : q[i] = t})

\* C39: the token index and the tenant queues agree in every reachable state:
\* each indexed token names a job that stands exactly once in the queue of the
\* tenant recorded for it and in no other queue, and every job in a queue is
\* indexed under its token.
C39_IndexMatchesQueues ==
    /\ \A t \in DOMAIN jobIndex :
          LET rid == jobIndex[t].restaurantId
          IN /\ rid \in DOMAIN jobsByRestaurant
             /\ Occurrences(jobsByRestaurant[rid], t) = 1
             /\ \A r \in DOMAIN jobsByRestaurant \ {rid} :
                   Occurrences(jobsByRestaurant[r], t) = 0
    /\ \A r \in DOMAIN jobsByRestaurant :
          \A i \in 1..Len(jobsByRestaurant[r]) :
              jobsByRestaurant[r][i] \in DOMAIN jobIndex

\* tenant tA had jobs 1 and 2 in its queue; job 1 was confirmed and removed
\* from the head, job 2 is what the queue and the index hold
C39_Witness ==
    /\ nextId = 3 /\ pendingDelete = {}
    /\ DOMAIN jobIndex = {2}
    /\ jobIndex[2].restaurantId = "tA"
    /\ jobsByRestaurant["tA"] = <<2>>

----------------------------------------------------------------------------
(* Claims about the progress of the render limiter *)

\* a promise job that resumes a waiter is queued
WakeUpPending == \E i \in DOMAIN microtasks : microtasks[i].kind = "resume"

\* no waiter sits in the queue while a slot is free and nobody was woken
NoWaiterLeftBehind ==
    renderLimit.q # <<>> =>
        renderLimit.running >= RENDER_LIMIT_MAX \/ WakeUpPending

\* a completion, by return or by throw, gives its slot back and wakes the
\* oldest waiter, if there is one
FinallyReleasesAndWakes ==
    [][RunFinally =>
          /\ renderLimit'.running = renderLimit.running - 1
          /\ renderLimit.q # <<>> =>
                /\ renderLimit'.q = Tail(renderLimit.q)
                /\ runPc'[Head(renderLimit.q)] = "woken"
                /\ microtasks'[Len(microtasks')] = Job("resume", Head(renderLimit.q))]_vars

\* C40: every render submitted to the limiter starts at some time, provided
\* every running render finishes at some time: a call that waits in the queue
\* of the limiter comes to run; a completion, a throw included, releases its
\* slot and wakes the oldest waiter; and no waiter is left queued while fewer
\* than max renders run and no wake-up is pending.
C40_EveryRenderStarts ==
    /\ \A c \in Calls : (runPc[c] \in {"waiting", "woken"}) ~> (runPc[c] = "running")
    /\ FinallyReleasesAndWakes
    /\ []NoWaiterLeftBehind

\* a completion has just woken the oldest waiter: one render runs, the woken
\* call has not resumed yet and another call still waits in the queue
C40_Witness ==
    /\ renderLimit.running < RENDER_LIMIT_MAX
    /\ renderLimit.q # <<>>
    /\ WakeUpPending
    /\ \E c \in Calls : runPc[c] = "woken"

====
